---------------------------- MODULE Spec2Model ----------------------------
(***************************************************************************)
(* Verification model of the text-recovery core of the K12 answer          *)
(* evaluator:                                                              *)
(*   - QuestionPaperOCRService._parse_questions (section-based scan with   *)
(*     OR / internal-choice merging, plain fallback parser),               *)
(*   - AnswerParser.parse_answers (marker splitter, pure-MCQ shortcut),    *)
(*   - the "smart answer mapping" reconciler of process_submission*.       *)
(*                                                                         *)
(* Texts are sequences of pieces (strings).  A paper line is a record that *)
(* carries the stripped line (raw) together with what the parser's regular *)
(* expressions extract from it.                                            *)
(***************************************************************************)
EXTENDS Integers, Sequences, FiniteSets, TLC

VARIABLES
    \* ---- QuestionPaperOCRService._parse_questions -------------------------
    lines,            \* text.split('\n'), one record per line
    i,                \* number of lines consumed by the running scan
    questions,        \* List[Dict] built by the running parser
    current_section,  \* "None" or the section letter
    section_cfg,      \* NoCfg or the rule of the open section
    section_q_count,  \* questions finalised in the current section
    cur_lines,        \* accumulator: text pieces of the open question
    cur_options,      \* accumulator: option dict of the open question
    in_ar,            \* inside an Assertion-Reason block
    after_or,         \* an OR line was processed, next start may be the alternative
    or_prev_q_num,    \* source number of the last ordinary question start (-1: None)
    global_q_num,     \* next sequential output number
    temp_correct,     \* self._temp_correct: output number -> correct letter
    pc,               \* "idle" | "section" | "plain" | "done"
    result,           \* value returned by _parse_questions
    \* ---- AnswerParser.parse_answers --------------------------------------
    sheet_text,       \* the argument of parse_answers (text)
    broken,           \* text after the line-break insertion of line 25
    parts,            \* re.split(pattern, "\n" + text)
    answers,          \* dict built by the marker loop, in insertion order
    current_q,        \* active question number (-1: none yet)
    seen_qs,          \* numbers that have started an answer
    preamble,         \* text before the first marker, until it is attached
    marker_idx,       \* markers consumed by the loop
    apc,              \* "idle" | "start" | "mcq" | "split" | "loop" | "done"
    parse_result,     \* value returned by parse_answers
    \* ---- smart answer mapping of process_submission* ---------------------
    paper_questions,  \* paper.questions: [question_number, question_text]
    parsed_answers,   \* parser output handed to the mapping
    mapped_answers,   \* dict question number -> answer text
    unmapped_answers, \* answer texts whose number is not in the paper
    unmapped_questions, \* pool of questions without an answer
    ans_idx,          \* answers of unmapped_answers already iterated
    rpc,              \* "idle" | "partition" | "loop" | "done"
    \* ---- evaluation loop of process_submission* --------------------------
    pipeline,         \* "multiple" (process_submission_multiple) | "single"
    eval_questions,   \* paper.questions as the loop reads them
    eval_answers,     \* mapped_answers when the loop starts
    eval_idx,         \* questions the loop has gone through
    evaluations,      \* rows written by crud_evaluation.create_evaluation
    status,           \* submission.status
    epc,              \* "idle" | "created" | "marked" | "scheduled" | "loop" | "done"
    \* ---- extract_questions_from_pdf, two invocations on one directory ----
    num_pages,        \* invocation -> pages of its PDF (len(images))
    page_files,       \* idx -> 0 (no file temp_page_<idx>.png) or the invocation
                      \* whose page the file holds
    page_idx,         \* invocation -> idx of its for loop
    temp_images,      \* invocation -> its list temp_images, as indices; in the
                      \* finally block the part still to be removed
    parsed_pages,     \* invocation -> what each of its
                      \* extract_questions_from_image calls read
    xpc               \* invocation -> "idle" | "save" | "parse" | "cleanup" |
                      \* "cleanup_raised" | "returned" | "raised"

paperVars == <<lines, i, questions, current_section, section_cfg, section_q_count,
               cur_lines, cur_options, in_ar, after_or, or_prev_q_num, global_q_num,
               temp_correct, pc, result>>

answerVars == <<sheet_text, broken, parts, answers, current_q, seen_qs, preamble, marker_idx,
               apc,
                parse_result>>

reconVars == <<paper_questions, parsed_answers, mapped_answers, unmapped_answers,
               unmapped_questions, ans_idx, rpc>>

evalVars == <<pipeline, eval_questions, eval_answers, eval_idx, evaluations, status, epc>>

extractVars == <<num_pages, page_files, page_idx, temp_images, parsed_pages, xpc>>

vars == <<paperVars, answerVars, reconVars, evalVars, extractVars>>

----------------------------------------------------------------------------
(***************************************************************************)
(* Bounds                                                                  *)
(***************************************************************************)
MaxLines == 4

----------------------------------------------------------------------------
(***************************************************************************)
(* Small helpers                                                           *)
(***************************************************************************)
Range(f) == { f[x] : x \in DOMAIN f }

SeqsUpTo(S, n) == UNION { [1..k -> S] : k \in 0..n }

Last(s) == s[Len(s)]

EmptyDict == <<>>

\* dict.update(new): the keys of new win
DictUpdate(old, new) == new @@ old

----------------------------------------------------------------------------
(***************************************************************************)
(* Paper lines.  kind is the first pattern of the scan that the stripped   *)
(* line satisfies: "blank", "section" (_match_section_header), "or"        *)
(* (^\s*(OR|or)\s*$), "q" (_match_question_start_line), "opt"              *)
(* (_parse_options_from_line), "text" (anything else).                     *)
(*   nq, mpq   : N and M of an "N x M = T" annotation in the line, or -1   *)
(*   num, text : number and stripped body of a question-start line         *)
(*   letter, otext, correct : option letter, cleaned option text, and the  *)
(*               letter marked correct ("" if none) of an option line      *)
(*   pmarks, ptext : marks and text _match_question_with_marks extracts,   *)
(*               pmarks = -1 when that matcher rejects the line            *)
(***************************************************************************)
Line(raw, kind) ==
    [raw |-> raw, kind |-> kind, section |-> "", nq |-> -1, mpq |-> -1,
     num |-> -1, text |-> "", letter |-> "", otext |-> "", correct |-> "",
     pmarks |-> -1, ptext |-> ""]

BlankLine == Line("", "blank")

HeaderLine(raw, sec) == [Line(raw, "section") EXCEPT !.section = sec]

HeaderLineNxM(raw, sec, n, m) ==
    [Line(raw, "section") EXCEPT !.section = sec, !.nq = n, !.mpq = m]

OrLine == Line("OR", "or")

\* "Q<num>. <text>" without marks annotation: the plain matcher takes it
\* through its last pattern with marks 1, provided the body is not empty.
QLine(raw, num, text) ==
    [Line(raw, "q") EXCEPT !.num = num, !.text = text,
                           !.pmarks = IF text = "" THEN -1 ELSE 1,
                           !.ptext = text]

\* "Q<num>. <ptext> (<m> marks)": the section scan keeps the annotation in
\* the body (text), the plain matcher strips it (ptext).
QMarksLine(raw, num, text, ptext, m) ==
    [Line(raw, "q") EXCEPT !.num = num, !.text = text, !.pmarks = m, !.ptext = ptext]

TextLine(raw) == Line(raw, "text")

OptionLine(raw, letter, otext, correct) ==
    [Line(raw, "opt") EXCEPT !.letter = letter, !.otext = otext, !.correct = correct]

----------------------------------------------------------------------------
(***************************************************************************)
(* Section rule table                                                      *)
(***************************************************************************)
NoCfg ==
    [section |-> "None", marks_per_question |-> 0, num_questions |-> 0,
     primary_type |-> "none", ar_questions |-> 0, internal_choice |-> FALSE]

CBSE_PHYSICS_SECTION_CONFIG(sec) ==
    CASE sec = "A" -> [marks_per_question |-> 1, num_questions |-> 16,
                       primary_type |-> "mcq", ar_questions |-> 4,
                       internal_choice |-> FALSE]
      [] sec = "B" -> [marks_per_question |-> 2, num_questions |-> 5,
                       primary_type |-> "short", ar_questions |-> 0,
                       internal_choice |-> TRUE]
      [] sec = "C" -> [marks_per_question |-> 3, num_questions |-> 7,
                       primary_type |-> "short", ar_questions |-> 0,
                       internal_choice |-> TRUE]
      [] sec = "D" -> [marks_per_question |-> 4, num_questions |-> 2,
                       primary_type |-> "case_study", ar_questions |-> 0,
                       internal_choice |-> TRUE]
      [] sec = "E" -> [marks_per_question |-> 5, num_questions |-> 3,
                       primary_type |-> "long", ar_questions |-> 0,
                       internal_choice |-> TRUE]

----------------------------------------------------------------------------
(***************************************************************************)
(* Text helpers of the paper parser                                        *)
(***************************************************************************)
\* _preserve_math on one piece: x^2 -> x^{2}, v_0 -> v_{0}; pieces without
\* '^' or '_' are left alone.
PreserveMathPiece(p) ==
    CASE p = "x^2" -> "x^{2}"
      [] p = "x^2 (5 marks)" -> "x^{2} (5 marks)"
      [] p = "v_0" -> "v_{0}"
      [] OTHER -> p

_preserve_math(text) == [k \in DOMAIN text |-> PreserveMathPiece(text[k])]

RECURSIVE JoinPieces(_)
JoinPieces(ps) ==
    IF Len(ps) = 0 THEN <<>>
    ELSE IF Len(ps) = 1 THEN <<ps[1]>>
    ELSE <<ps[1], " ">> \o JoinPieces(Tail(ps))

\* ' '.join(cur_lines).strip(): only the first element of cur_lines can be
\* the empty string (a question-start line without body).
RawText(ps) ==
    IF Len(ps) > 0 /\ ps[1] = "" THEN JoinPieces(Tail(ps)) ELSE JoinPieces(ps)

\* re.search(r'Assertion\s*\(?A\)?[:\s]', text, IGNORECASE)
_is_assertion_start(text) == \E k \in DOMAIN text : text[k] \in {"Assertion (A): p"}

\* re.search(r'^Reason\s*\(?R\)?[:\s]', line, IGNORECASE)
_is_reason_line(raw) == raw \in {"Reason (R): r"}

\* re.search(r'\([A-D]\)\s+\S', text)
HasInlineOptions(text) == \E k \in DOMAIN text : text[k] \in {"pick (A) u (B) w"}

_infer_type_from_marks(marks) ==
    IF marks = 1 THEN "mcq"
    ELSE IF marks = 4 THEN "case_study"
    ELSE IF marks >= 5 THEN "long"
    ELSE "short"

ar_start_idx == 12

\* faulty variant: Section A is typed by content alone
_determine_type_by_content(text, options, marks, section, section_q_index, cfg) ==
    IF section = "A"
    THEN IF _is_assertion_start(text) THEN "assertion_reason" ELSE "mcq"
    ELSE cfg.primary_type

\* faulty variant: a single parsed option makes a question mcq
_determine_type_any_option(text, options, marks, section, section_q_index, cfg) ==
    IF section = "A"
    THEN IF section_q_index >= ar_start_idx THEN "assertion_reason"
         ELSE IF _is_assertion_start(text) THEN "assertion_reason"
         ELSE "mcq"
    ELSE IF Cardinality(DOMAIN options) >= 1 THEN "mcq"
    ELSE IF HasInlineOptions(text) THEN "mcq"
    ELSE IF _is_assertion_start(text) THEN "assertion_reason"
    ELSE IF cfg # NoCfg THEN cfg.primary_type
    ELSE _infer_type_from_marks(marks)

_determine_type(text, options, marks, section, section_q_index, cfg) ==
    IF section = "A"
    THEN IF section_q_index >= ar_start_idx THEN "assertion_reason"
         ELSE IF _is_assertion_start(text) THEN "assertion_reason"
         ELSE "mcq"
    ELSE IF Cardinality(DOMAIN options) >= 2 THEN "mcq"
    ELSE IF HasInlineOptions(text) THEN "mcq"
    ELSE IF _is_assertion_start(text) THEN "assertion_reason"
    ELSE IF cfg # NoCfg THEN cfg.primary_type
    ELSE _infer_type_from_marks(marks)


----------------------------------------------------------------------------
(***************************************************************************)
(* _parse_section_based: the locals of one invocation as a record, and the *)
(* branches of its line loop as operators on that record.                  *)
(***************************************************************************)
SectionStart(tc) ==
    [questions |-> <<>>, current_section |-> "None", section_cfg |-> NoCfg,
     section_q_count |-> 0, cur_lines |-> <<>>, cur_options |-> EmptyDict,
     in_ar |-> FALSE, after_or |-> FALSE, or_prev_q_num |-> -1,
     global_q_num |-> 1, temp_correct |-> tc]

OrKey(k) ==
    CASE k = "A" -> "OR_A" [] k = "B" -> "OR_B" [] k = "C" -> "OR_C"
      [] k = "D" -> "OR_D" [] OTHER -> k

\* faulty variant: the counter advances on every flush, merges included
CounterAfterFlushAlways(n, merged) == n + 1

\* global_q_num / section_q_count after a flush: only the branch that appends
\* a question increments them (lines 241-242), the merge branch does not
CounterAfterFlush(n, merged) == IF merged THEN n ELSE n + 1

\* flush, is_or_alt branch: merge into the previous question, counters untouched
FlushMerge(s, raw_text) ==
    LET prev == Last(s.questions)
        or_opts == [k \in { OrKey(x) : x \in DOMAIN s.cur_options } |->
                      s.cur_options[CHOOSE x \in DOMAIN s.cur_options : OrKey(x) = k]]
        merged == [prev EXCEPT
                     !.question_text = @ \o <<"\nOR\n">> \o _preserve_math(raw_text),
                     !.has_or_option = TRUE,
                     !.options = IF s.cur_options # EmptyDict
                                 THEN DictUpdate(@, or_opts) ELSE @]
    IN  [s EXCEPT !.questions = [@ EXCEPT ![Len(@)] = merged],
                  !.global_q_num = CounterAfterFlush(@, TRUE),
                  !.section_q_count = CounterAfterFlush(@, TRUE)]

\* flush, ordinary branch: append a new question and advance both counters
FlushAppend(s, raw_text, marks, q_type) ==
    LET has_correct == s.global_q_num \in DOMAIN s.temp_correct
        correct_ans == IF has_correct THEN s.temp_correct[s.global_q_num] ELSE "None"
        q == [question_number |-> s.global_q_num,
              question_text   |-> _preserve_math(raw_text),
              marks           |-> marks,
              question_type   |-> q_type,
              section         |-> s.current_section,
              has_or_option   |-> FALSE,
              options         |-> s.cur_options,
              correct_answer  |-> correct_ans]
    IN  [s EXCEPT !.questions = Append(@, q),
                  !.temp_correct = IF has_correct
                                   THEN [k \in DOMAIN @ \ {s.global_q_num} |-> @[k]]
                                   ELSE @,
                  !.global_q_num = CounterAfterFlush(@, FALSE),
                  !.section_q_count = CounterAfterFlush(@, FALSE)]

ClearAccumulator(s) ==
    [s EXCEPT !.cur_lines = <<>>, !.cur_options = EmptyDict, !.in_ar = FALSE]

flush(s, is_or_alt) ==
    IF Len(s.cur_lines) = 0 THEN s
    ELSE LET raw_text == RawText(s.cur_lines)
             marks == IF s.section_cfg # NoCfg
                      THEN s.section_cfg.marks_per_question ELSE 1
             q_type == _determine_type(raw_text, s.cur_options, marks,
                                       s.current_section, s.section_q_count,
                                       s.section_cfg)
         IN  IF Len(raw_text) = 0 THEN ClearAccumulator(s)
             ELSE IF is_or_alt /\ Len(s.questions) > 0
             THEN ClearAccumulator(FlushMerge(s, raw_text))
             ELSE ClearAccumulator(FlushAppend(s, raw_text, marks, q_type))

\* faulty variant: only the line right after the header is examined
LookaheadNextLineOnly(ls, k) ==
    IF k + 1 <= Len(ls) /\ ls[k + 1].nq >= 0 THEN k + 1 ELSE 0

\* lines 268-275: the first of the (at most four) lines after the header
\* that carries an N x M = T annotation; 0 if none does
LookaheadMarks(ls, k) ==
    LET cand == { j \in (k + 1)..(k + 4) : j <= Len(ls) /\ ls[j].nq >= 0 }
    IN  IF cand = {} THEN 0 ELSE CHOOSE j \in cand : \A j2 \in cand : j <= j2

\* faulty variant: the new section is installed before the open question
\* is flushed
OnSectionHeaderSwitchFirst(s, ls, k) ==
    LET sec == ls[k].section
        la == LookaheadMarks(ls, k)
        src == IF ls[k].nq >= 0 THEN k ELSE la
        defaults == CBSE_PHYSICS_SECTION_CONFIG(sec)
        cfg == [section |-> sec,
                marks_per_question |-> IF src > 0 THEN ls[src].mpq
                                       ELSE defaults.marks_per_question,
                num_questions |-> IF src > 0 THEN ls[src].nq
                                  ELSE defaults.num_questions,
                primary_type |-> defaults.primary_type,
                ar_questions |-> defaults.ar_questions,
                internal_choice |-> defaults.internal_choice]
        f == flush([s EXCEPT !.current_section = sec, !.section_cfg = cfg], s.after_or)
    IN  [f EXCEPT !.after_or = FALSE, !.section_q_count = 0]

\* section header branch, ls[k] being the header line
OnSectionHeader(s, ls, k) ==
    LET f == flush(s, s.after_or)
        sec == ls[k].section
        la == LookaheadMarks(ls, k)
        src == IF ls[k].nq >= 0 THEN k ELSE la
        defaults == CBSE_PHYSICS_SECTION_CONFIG(sec)
        cfg == [section |-> sec,
                marks_per_question |-> IF src > 0 THEN ls[src].mpq
                                       ELSE defaults.marks_per_question,
                num_questions |-> IF src > 0 THEN ls[src].nq
                                  ELSE defaults.num_questions,
                primary_type |-> defaults.primary_type,
                ar_questions |-> defaults.ar_questions,
                internal_choice |-> defaults.internal_choice]
    IN  [f EXCEPT !.after_or = FALSE, !.section_q_count = 0,
                  !.current_section = sec, !.section_cfg = cfg]

\* faulty variant: every OR line flushes and arms the alternative
OnOrLineAlways(s) == [flush(s, FALSE) EXCEPT !.after_or = TRUE]

\* OR line branch
OnOrLine(s) ==
    IF s.section_cfg # NoCfg /\ s.section_cfg.internal_choice /\ Len(s.cur_lines) > 0
    THEN [flush(s, FALSE) EXCEPT !.after_or = TRUE]
    ELSE s

remaining_slots(s) == s.section_cfg.num_questions - s.section_q_count

\* faulty variant: the source numbers are not compared
is_same_q_unset_only(or_prev, incoming_num) == or_prev = -1

\* faulty variant: whatever starts after an OR line is its alternative
is_same_q_always(or_prev, incoming_num) == TRUE

\* line 327
is_same_q(or_prev, incoming_num) == or_prev = -1 \/ incoming_num = or_prev

OpenQuestion(s, l) ==
    [s EXCEPT !.cur_lines = <<l.text>>, !.cur_options = EmptyDict,
              !.in_ar = _is_assertion_start(<<l.text>>)]

NormalQuestionStart(s, l) ==
    OpenQuestion([flush(s, FALSE) EXCEPT !.after_or = FALSE,
                                         !.or_prev_q_num = l.num], l)

\* question-start branch (qmatch and (remaining_slots > 0 or after_or))
OnQuestionStart(s, l) ==
    LET slots == remaining_slots(s)
    IN  IF s.after_or
        THEN IF is_same_q(s.or_prev_q_num, l.num)
             THEN OpenQuestion(flush(s, TRUE), l)
             ELSE LET f == [flush(s, TRUE) EXCEPT !.after_or = FALSE,
                                                  !.or_prev_q_num = -1]
                  IN  IF slots <= 0 THEN f ELSE NormalQuestionStart(f, l)
        ELSE NormalQuestionStart(s, l)

\* option line branch: cur_options.update(...), correct letter remembered
\* only while no question has been emitted yet
OnOptionLine(s, l) ==
    [s EXCEPT !.cur_options = DictUpdate(@, [k \in {l.letter} |-> l.otext]),
              !.temp_correct = IF l.correct # "" /\ Len(s.questions) = 0
                               THEN DictUpdate(@, [k \in {s.global_q_num} |-> l.correct])
                               ELSE @]

\* Assertion-Reason continuation and general continuation
OnContinuation(s, l) ==
    [s EXCEPT !.cur_lines = Append(@, l.raw),
              !.in_ar = @ \/ _is_reason_line(l.raw)]

\* Which branch of the loop body (lines 249-381) takes the line
Branch(s, l) ==
    IF l.kind = "blank" THEN "blank"
    ELSE IF l.kind = "section" THEN "section"
    ELSE IF l.nq >= 0 /\ Len(s.cur_lines) = 0 THEN "marks_spec"
    ELSE IF l.kind = "or" THEN "or"
    ELSE IF s.section_cfg = NoCfg THEN "ignored"
    ELSE IF l.kind = "q" /\ (remaining_slots(s) > 0 \/ s.after_or) THEN "qstart"
    ELSE IF Len(s.cur_lines) = 0 THEN "ignored"
    ELSE IF l.letter # "" THEN "option"
    ELSE "continuation"

\* One iteration of the while loop on line ls[k]
ParseLine(s, ls, k) ==
    LET b == Branch(s, ls[k])
    IN  CASE b = "section"      -> OnSectionHeader(s, ls, k)
          [] b = "or"           -> OnOrLine(s)
          [] b = "qstart"       -> OnQuestionStart(s, ls[k])
          [] b = "option"       -> OnOptionLine(s, ls[k])
          [] b = "continuation" -> OnContinuation(s, ls[k])
          [] OTHER              -> s

\* Final flush at end of input (lines 383-385)
FinalFlush(s) == flush(s, s.after_or)


\* The scan as a function of the input: locals after k lines were consumed
RECURSIVE After(_, _)
After(ls, k) ==
    IF k = 0 THEN SectionStart(EmptyDict) ELSE ParseLine(After(ls, k - 1), ls, k)

\* _parse_section_based(text): its question list; the empty list stands for None
_parse_section_based(ls) == FinalFlush(After(ls, Len(ls))).questions

----------------------------------------------------------------------------
(***************************************************************************)
(* Fallback: _parse_plain_questions and the marks-by-number override       *)
(***************************************************************************)
\* re.search(r'\bOR\b|\(OR\)|\[OR\]', text): case-sensitive
_detect_or(text) == \E k \in DOMAIN text : text[k] \in {"OR", "(OR)", "[OR]"}

_get_physics_marks_by_number(q_num) ==
    IF 1 <= q_num /\ q_num <= 16 THEN 1
    ELSE IF 17 <= q_num /\ q_num <= 21 THEN 2
    ELSE IF 22 <= q_num /\ q_num <= 28 THEN 3
    ELSE IF 29 <= q_num /\ q_num <= 30 THEN 4
    ELSE IF 31 <= q_num /\ q_num <= 33 THEN 5
    ELSE 1

PlainStart == [questions |-> <<>>, open |-> FALSE, cur_num |-> -1,
               cur_marks |-> -1, cur_text |-> <<>>]

\* the number a plain question is emitted with
PlainNumber(st) == st.cur_num

\* append cur_q (if any) with its joined text
PlainClose(st) ==
    IF ~st.open THEN st.questions
    ELSE LET qt == RawText(st.cur_text)
         IN  Append(st.questions,
                 [question_number |-> PlainNumber(st),
                  question_text   |-> _preserve_math(qt),
                  marks           |-> st.cur_marks,
                  question_type   |-> _infer_type_from_marks(st.cur_marks),
                  section         |-> "None",
                  has_or_option   |-> _detect_or(qt),
                  options         |-> EmptyDict,
                  correct_answer  |-> "None"])

PlainLine(st, l) ==
    IF l.kind = "blank" THEN st
    ELSE IF l.pmarks >= 0
    THEN [questions |-> PlainClose(st), open |-> TRUE, cur_num |-> l.num,
          cur_marks |-> l.pmarks, cur_text |-> <<l.ptext>>]
    ELSE IF st.open THEN [st EXCEPT !.cur_text = Append(@, l.raw)]
    ELSE st

RECURSIVE PlainAfter(_, _)
PlainAfter(ls, k) ==
    IF k = 0 THEN PlainStart ELSE PlainLine(PlainAfter(ls, k - 1), ls[k])

_parse_plain_questions(ls) == PlainClose(PlainAfter(ls, Len(ls)))

\* lines 149-153: marks and type re-derived from the question number
ApplyPhysicsMarks(qs) ==
    [k \in DOMAIN qs |->
        LET m == _get_physics_marks_by_number(qs[k].question_number)
        IN  [qs[k] EXCEPT !.marks = m, !.question_type = _infer_type_from_marks(m)]]

_parse_questions(ls) ==
    IF Len(_parse_section_based(ls)) > 0 THEN _parse_section_based(ls)
    ELSE ApplyPhysicsMarks(_parse_plain_questions(ls))

----------------------------------------------------------------------------
(***************************************************************************)
(* Inputs of the paper parser                                              *)
(***************************************************************************)
HdrB  == HeaderLine("SECTION B", "B")
HdrA1 == HeaderLineNxM("SECTION A (1 x 1 = 1)", "A", 1, 1)
HdrA  == HeaderLine("SECTION - A", "A")
Q17a  == QLine("Q17. a", 17, "a")
Q17b  == QLine("Q17. b", 17, "b")
Q18c  == QLine("18. c", 18, "c")
Q17e  == QLine("Q17.", 17, "")
TxtD  == TextLine("d")
Spec16x1 == [TextLine("16 x 1 = 16") EXCEPT !.nq = 16, !.mpq = 1]
Q1pick == QLine("Q1. pick", 1, "pick")
OptA  == OptionLine("(A) u", "A", "u", "")
OptB  == OptionLine("(B) w *", "B", "w", "B")
AsrP  == TextLine("Assertion (A): p")
RsnR  == TextLine("Reason (R): r")
P5e   == QMarksLine("Q5. e (2 marks)", 5, "e (2 marks)", "e", 2)
P2f   == QMarksLine("Q2. f (3 marks)", 2, "f (3 marks)", "f", 3)
P5g   == QMarksLine("5. x^2 (5 marks)", 5, "x^2 (5 marks)", "x^2", 5)

HdrB3x4 == HeaderLineNxM("SECTION B (3 x 4 = 12)", "B", 3, 4)
HdrE  == HeaderLine("SECTION E", "E")
Spec5x3 == [TextLine("5 x 3 = 15") EXCEPT !.nq = 5, !.mpq = 3]

SectionHeaders == {HdrB, HdrA1}
SectionBody == {HdrB, OrLine, Q17a, Q17b, Q18c, Q17e, TxtD}
PlainBody == {BlankLine, P5e, P2f, P5g, TxtD, OrLine}

\* a header followed by up to MaxLines lines of one or more sections
SectionPapers ==
    { <<h>> \o b : h \in SectionHeaders, b \in SeqsUpTo(SectionBody, MaxLines) }

\* papers without any section header: 1 to MaxLines lines
PlainPapers == SeqsUpTo(PlainBody, MaxLines) \ {<<>>}

\* sections with and without "N x M = T" annotation, on the header line or
\* on a line of its own
AnnotatedBody == {BlankLine, Spec5x3, Q17a, HdrE}
AnnotatedPapers ==
    { <<h>> \o b : h \in {HdrB, HdrB3x4}, b \in SeqsUpTo(AnnotatedBody, MaxLines) }

\* a Section B announced with a single question
HdrB1x4 == HeaderLineNxM("SECTION B (1 x 4 = 4)", "B", 1, 4)
FullSectionPapers ==
    { <<HdrB1x4>> \o b : b \in SeqsUpTo({Q17a, OrLine, Q18c, TxtD}, MaxLines) }

\* a Section A of eleven to fourteen questions, with and without an
\* Assertion label in the twelfth and later ones
QAsr == QLine("Q2. Assertion (A): p", 2, "Assertion (A): p")
LongSectionAPapers ==
    { <<HdrA>> \o [k \in 1..11 |-> Q1pick] \o b : b \in SeqsUpTo({Q1pick, QAsr}, 3) }

\* Section B questions with no, one or two option lines, an Assertion label
\* or inline option labels
QInline == QLine("Q3. pick (A) u (B) w", 3, "pick (A) u (B) w")
OptionPapers ==
    { <<HdrB>> \o b : b \in SeqsUpTo({Q17a, OptA, OptB, AsrP, QInline}, MaxLines) }

\* an annotation on the fourth and on the fifth line after the header
WindowPapers ==
    { <<HdrB, BlankLine, BlankLine, Q17a, Spec5x3, Q18c>>,
      <<HdrB, BlankLine, BlankLine, Q17a, TxtD, Spec5x3, Q18c>> }

SamplePapers ==
    { <<BlankLine, HdrA, Spec16x1, Q1pick, OptA, OptB, Q17a, AsrP, RsnR>>,
      <<HdrB, Q17e, OptB>> }

\* texts given to a further call on the same service instance
LaterPapers ==
    { <<HdrB, Q17a>>, <<HdrA, Q1pick, OptA>>, <<HdrB, Q17e, OptB>>, <<P5e>> }

PaperInputs ==
    SectionPapers \cup PlainPapers \cup SamplePapers \cup AnnotatedPapers \cup WindowPapers
        \cup FullSectionPapers \cup LongSectionAPapers \cup OptionPapers

----------------------------------------------------------------------------
(***************************************************************************)
(* _parse_questions as a state machine: one action per branch of the scan  *)
(***************************************************************************)
Cur ==
    [questions |-> questions, current_section |-> current_section,
     section_cfg |-> section_cfg, section_q_count |-> section_q_count,
     cur_lines |-> cur_lines, cur_options |-> cur_options, in_ar |-> in_ar,
     after_or |-> after_or, or_prev_q_num |-> or_prev_q_num,
     global_q_num |-> global_q_num, temp_correct |-> temp_correct]

SetLocals(s) ==
    /\ questions' = s.questions
    /\ current_section' = s.current_section
    /\ section_cfg' = s.section_cfg
    /\ section_q_count' = s.section_q_count
    /\ cur_lines' = s.cur_lines
    /\ cur_options' = s.cur_options
    /\ in_ar' = s.in_ar
    /\ after_or' = s.after_or
    /\ or_prev_q_num' = s.or_prev_q_num
    /\ global_q_num' = s.global_q_num
    /\ temp_correct' = s.temp_correct

InitPaper ==
    /\ lines \in PaperInputs
    /\ i = 0
    /\ questions = <<>>
    /\ current_section = "None"
    /\ section_cfg = NoCfg
    /\ section_q_count = 0
    /\ cur_lines = <<>>
    /\ cur_options = EmptyDict
    /\ in_ar = FALSE
    /\ after_or = FALSE
    /\ or_prev_q_num = -1
    /\ global_q_num = 1
    /\ temp_correct = EmptyDict
    /\ pc = "section"
    /\ result = <<>>

\* the next line is taken by branch b of the loop
Scanning(b) ==
    /\ pc = "section"
    /\ i < Len(lines)
    /\ Branch(Cur, lines[i + 1]) = b
    /\ i' = i + 1
    /\ UNCHANGED <<lines, pc, result, answerVars, reconVars, evalVars, extractVars>>

ScanBlank == Scanning("blank") /\ SetLocals(Cur)

ScanSectionHeader == Scanning("section") /\ SetLocals(OnSectionHeader(Cur, lines, i + 1))

ScanMarksSpec == Scanning("marks_spec") /\ SetLocals(Cur)

ScanOr == Scanning("or") /\ SetLocals(OnOrLine(Cur))

ScanQuestionStart == Scanning("qstart") /\ SetLocals(OnQuestionStart(Cur, lines[i + 1]))

ScanOption == Scanning("option") /\ SetLocals(OnOptionLine(Cur, lines[i + 1]))

ScanContinuation == Scanning("continuation") /\ SetLocals(OnContinuation(Cur, lines[i + 1]))

ScanIgnored == Scanning("ignored") /\ SetLocals(Cur)

\* end of input: final flush; a non-empty list is returned, otherwise the
\* plain parser takes over (_parse_questions, lines 144-148)
ScanEnd ==
    /\ pc = "section"
    /\ i = Len(lines)
    /\ LET s == FinalFlush(Cur)
       IN  /\ SetLocals(s)
           /\ IF Len(s.questions) > 0
              THEN pc' = "done" /\ result' = s.questions
              ELSE pc' = "plain" /\ result' = result
    /\ UNCHANGED <<lines, i, answerVars, reconVars, evalVars, extractVars>>

PlainFallback ==
    /\ pc = "plain"
    /\ result' = ApplyPhysicsMarks(_parse_plain_questions(lines))
    /\ pc' = "done"
    /\ UNCHANGED <<lines, i, questions, current_section, section_cfg, section_q_count,
                   cur_lines, cur_options, in_ar, after_or, or_prev_q_num,
                   global_q_num, temp_correct, answerVars, reconVars, evalVars, extractVars>>

\* a further call of _parse_questions on the same instance: the locals are
\* set up anew (lines 171-185), self._temp_correct is whatever the calls
\* before left in it
ParseAgain ==
    /\ pc = "done"
    /\ lines' \in LaterPapers
    /\ i' = 0
    /\ SetLocals(SectionStart(temp_correct))
    /\ pc' = "section"
    /\ result' = <<>>
    /\ UNCHANGED <<answerVars, reconVars, evalVars, extractVars>>

NextPaper ==
    \/ ParseAgain
    \/ ScanBlank
    \/ ScanSectionHeader
    \/ ScanMarksSpec
    \/ ScanOr
    \/ ScanQuestionStart
    \/ ScanOption
    \/ ScanContinuation
    \/ ScanIgnored
    \/ ScanEnd
    \/ PlainFallback

\* no call of _parse_questions in this behaviour
IdlePaper ==
    /\ lines = <<>>
    /\ i = 0
    /\ questions = <<>>
    /\ current_section = "None"
    /\ section_cfg = NoCfg
    /\ section_q_count = 0
    /\ cur_lines = <<>>
    /\ cur_options = EmptyDict
    /\ in_ar = FALSE
    /\ after_or = FALSE
    /\ or_prev_q_num = -1
    /\ global_q_num = 1
    /\ temp_correct = EmptyDict
    /\ pc = "idle"
    /\ result = <<>>


----------------------------------------------------------------------------
(***************************************************************************)
(* AnswerParser.  An answer text is a sequence of symbols: the white-space *)
(* characters " " and "\n", single digits, the punctuation characters      *)
(* . ) ( : - and words (maximal runs of letters).  The regular expressions *)
(* of parse_answers are evaluated symbol by symbol.                        *)
(***************************************************************************)
IsSpace(c) == c \in {" ", "\n"}

IsDigit(c) == c \in {"0", "1", "2", "3", "4", "5", "6", "7", "8", "9"}

DigitVal(c) ==
    CASE c = "0" -> 0 [] c = "1" -> 1 [] c = "2" -> 2 [] c = "3" -> 3
      [] c = "4" -> 4 [] c = "5" -> 5 [] c = "6" -> 6 [] c = "7" -> 7
      [] c = "8" -> 8 [] c = "9" -> 9

\* int(q_num_str)
IntOf(ds) == IF Len(ds) = 1 THEN DigitVal(ds[1]) ELSE 10 * DigitVal(ds[1]) + DigitVal(ds[2])

\* [\.\)]
IsMarkerPunct(c) == c \in {".", ")"}

\* (?:Q(?:ues(?:tion)?)?|Ans(?:wer)?|Sol(?:ution)?) under IGNORECASE
IsMarkerKeyword(c) ==
    c \in {"Q", "q", "Ques", "Question", "question", "Ans", "ans", "Answer",
           "answer", "Sol", "sol", "Solution", "solution"}

\* (?:Answer|Ans|Sol(?:ution)?) under IGNORECASE
IsAnswerPrefixWord(c) ==
    c \in {"Ans", "ans", "Answer", "answer", "Sol", "sol", "Solution", "solution"}

\* [A-D] under IGNORECASE, and .upper()
IsOptionLetter(c) == c \in {"A", "B", "C", "D", "a", "b", "c", "d"}

Upper(c) ==
    CASE c = "a" -> "A" [] c = "b" -> "B" [] c = "c" -> "C" [] c = "d" -> "D"
      [] OTHER -> c

\* first position >= p that holds no white space (\s* and \s+ are greedy)
RECURSIVE SkipSpace(_, _)
SkipSpace(t, p) ==
    IF p <= Len(t) /\ IsSpace(t[p]) THEN SkipSpace(t, p + 1) ELSE p

\* first position >= p outside [\.\-\s]
RECURSIVE SkipSeparators(_, _)
SkipSeparators(t, p) ==
    IF p <= Len(t) /\ (IsSpace(t[p]) \/ t[p] \in {".", "-"})
    THEN SkipSeparators(t, p + 1) ELSE p

\* str.strip()
RECURSIVE StripRight(_)
StripRight(t) ==
    IF Len(t) > 0 /\ IsSpace(t[Len(t)]) THEN StripRight(SubSeq(t, 1, Len(t) - 1)) ELSE t

Strip(t) == StripRight(SubSeq(t, SkipSpace(t, 1), Len(t)))

\* (\d{1,2})([\.\)]\s+) at position w: number of digits matched (0: no match)
NumberAt(t, w) ==
    IF w <= Len(t) /\ IsDigit(t[w])
    THEN IF w + 3 <= Len(t) /\ IsDigit(t[w + 1]) /\ IsMarkerPunct(t[w + 2])
            /\ IsSpace(t[w + 3])
         THEN 2
         ELSE IF w + 2 <= Len(t) /\ IsMarkerPunct(t[w + 1]) /\ IsSpace(t[w + 2])
         THEN 1
         ELSE 0
    ELSE 0

\* line 25: (?<!\n)(?<!\d)\s*(\d{1,2}[\.\)])\s+ tried at position p;
\* the position of the number if it matches there, 0 otherwise
BreakMatchAt(t, p) ==
    LET w == SkipSpace(t, p)
    IN  IF (p = 1 \/ (t[p - 1] # "\n" /\ ~IsDigit(t[p - 1]))) /\ NumberAt(t, w) > 0
        THEN w ELSE 0

\* re.sub(..., r'\n\1 ', t) from position p on
RECURSIVE SubBreaks(_, _)
SubBreaks(t, p) ==
    IF p > Len(t) THEN <<>>
    ELSE LET w == BreakMatchAt(t, p)
         IN  IF w = 0 THEN <<t[p]>> \o SubBreaks(t, p + 1)
             ELSE LET n == NumberAt(t, w)
                  IN  <<"\n">> \o SubSeq(t, w, w + n) \o <<" ">>
                         \o SubBreaks(t, SkipSpace(t, w + n + 1))

\* line 25 with its " " + text
InsertBreaks(text) == SubBreaks(<<" ">> \o text, 1)

\* text.split('\n')
RECURSIVE SplitLines(_)
SplitLines(t) ==
    LET nl == { k \in DOMAIN t : t[k] = "\n" }
    IN  IF nl = {} THEN <<t>>
        ELSE LET k == CHOOSE x \in nl : \A y \in nl : x <= y
             IN  <<SubSeq(t, 1, k - 1)>> \o SplitLines(SubSeq(t, k + 1, Len(t)))

\* re.match(r'^\(?([A-D])\)?$', line, IGNORECASE): the letter, "" if no match
McqLetter(line) ==
    LET a == IF Len(line) > 0 /\ line[1] = "(" THEN Tail(line) ELSE line
        b == IF Len(a) > 0 /\ a[Len(a)] = ")" THEN SubSeq(a, 1, Len(a) - 1) ELSE a
    IN  IF Len(b) = 1 /\ IsOptionLetter(b[1]) THEN b[1] ELSE ""

\* lines = [l.strip() for l in text.strip().split('\n') if l.strip()]
NonEmptyLines(text) ==
    LET ls == SplitLines(Strip(text))
    IN  SelectSeq([k \in DOMAIN ls |-> Strip(ls[k])], LAMBDA l : Len(l) > 0)

McqLines(text) ==
    LET ls == NonEmptyLines(text)
        letters == [k \in DOMAIN ls |-> McqLetter(ls[k])]
    IN  SelectSeq(letters, LAMBDA x : x # "")

\* faulty variant: every non-empty line has to be an option letter
McqThresholdAllLines(n_mcq, n_lines) == n_mcq >= 3 /\ n_mcq >= n_lines

\* line 107: len(mcq_lines) >= max(3, len(lines) * 0.7), in tenths
McqThreshold(n_mcq, n_lines) == n_mcq >= 3 /\ 10 * n_mcq >= 7 * n_lines

\* _try_pure_mcq: the positional map as a list of [q, a] entries, empty if
\* the sheet is not detected as pure MCQ
_try_pure_mcq(text) ==
    LET mcq == McqLines(text)
    IN  IF McqThreshold(Len(mcq), Len(NonEmptyLines(text)))
        THEN [k \in DOMAIN mcq |-> [q |-> k, a |-> <<Upper(mcq[k])>>]]
        ELSE <<>>

\* line 37, tried at position p of t (MULTILINE ^: p starts a line):
\*   ^(\s*(?:Q..|Ans..|Sol..)?[\.\-\s]*\(?)(\d{1,2})([\.\)]\s+)
\* the position of the number if the pattern matches at p, 0 otherwise
MarkerMatchAt(t, p) ==
    LET a == SkipSpace(t, p)
        b == IF a <= Len(t) /\ IsMarkerKeyword(t[a]) THEN a + 1 ELSE a
        c == SkipSeparators(t, b)
        d == IF c <= Len(t) /\ t[c] = "(" THEN c + 1 ELSE c
    IN  IF (p = 1 \/ t[p - 1] = "\n") /\ NumberAt(t, d) > 0 THEN d ELSE 0

\* re.split(pattern, t): [pre, prefix, number, suffix, text, prefix, ...]
RECURSIVE SplitMarkers(_, _, _)
SplitMarkers(t, p, last) ==
    IF p > Len(t) THEN <<SubSeq(t, last, Len(t))>>
    ELSE LET d == MarkerMatchAt(t, p)
         IN  IF d = 0 THEN SplitMarkers(t, p + 1, last)
             ELSE LET n == NumberAt(t, d)
                      e == SkipSpace(t, d + n + 1)
                  IN  <<SubSeq(t, last, p - 1), SubSeq(t, p, d - 1),
                        SubSeq(t, d, d + n - 1), SubSeq(t, d + n, e - 1)>>
                         \o SplitMarkers(t, e, e)

\* line 38 with its "\n" + text
SplitParts(text) == SplitMarkers(<<"\n">> \o text, 1, 1)

\* re.search(r'Q|Ans|Sol', prefix, IGNORECASE)
has_explicit_marker(prefix) == \E k \in DOMAIN prefix : IsMarkerKeyword(prefix[k])

\* the answers dict, in insertion order, as a list of [q, a] entries
HasKey(d, q) == \E k \in DOMAIN d : d[k].q = q

Get(d, q) == d[CHOOSE k \in DOMAIN d : d[k].q = q].a

\* faulty variant: the text replaces what the key held
AppendToOverwriting(d, q, text) ==
    IF HasKey(d, q)
    THEN [k \in DOMAIN d |-> IF d[k].q = q THEN [d[k] EXCEPT !.a = text] ELSE d[k]]
    ELSE Append(d, [q |-> q, a |-> text])

\* answers[q] += text, the key being created with "" when absent
AppendTo(d, q, text) ==
    IF HasKey(d, q)
    THEN [k \in DOMAIN d |-> IF d[k].q = q THEN [d[k] EXCEPT !.a = @ \o text] ELSE d[k]]
    ELSE Append(d, [q |-> q, a |-> text])

Keys(d) == { d[k].q : k \in DOMAIN d }

\* faulty variant: only a number seen before makes a bullet
is_bullet_seen_only(explicit, q_num, current, seen) ==
    /\ ~explicit
    /\ current # -1
    /\ q_num \in seen

\* lines 62-67: is this marker a bullet of the active question?
is_bullet(explicit, q_num, current, seen) ==
    /\ ~explicit
    /\ current # -1
    /\ \/ q_num \in seen
       \/ q_num < current /\ (current - q_num) > 3

LoopStart(ps) ==
    [answers |-> <<>>, current_q |-> -1, seen_qs |-> {}, preamble |-> Strip(ps[1])]

\* lines 50-85, one iteration on the marker whose prefix is ps[k]
MarkerStep(st, ps, k) ==
    LET prefix == ps[k]
        q_num_str == ps[k + 1]
        suffix == ps[k + 2]
        ans_text == ps[k + 3]
        q_num == IntOf(q_num_str)
    IN  IF is_bullet(has_explicit_marker(prefix), q_num, st.current_q, st.seen_qs)
        THEN [st EXCEPT !.answers =
                 IF HasKey(@, st.current_q)
                 THEN AppendTo(@, st.current_q, prefix \o q_num_str \o suffix \o ans_text)
                 ELSE @]
        ELSE [answers |-> AppendTo(st.answers, q_num,
                              (IF Len(st.preamble) > 0
                               THEN st.preamble \o <<"\n">> ELSE <<>>) \o ans_text),
              current_q |-> q_num,
              seen_qs |-> st.seen_qs \cup {q_num},
              preamble |-> <<>>]

RECURSIVE MarkerLoop(_, _)
MarkerLoop(ps, n) ==
    IF n = 0 THEN LoopStart(ps)
    ELSE MarkerStep(MarkerLoop(ps, n - 1), ps, 4 * n - 2)

NumMarkers(ps) == (Len(ps) - 1) \div 4

\* line 116: ^(?:Answer|Ans|Sol(?:ution)?)\s*[:\-]\s* removed
StripAnswerPrefix(t) ==
    IF Len(t) > 0 /\ IsAnswerPrefixWord(t[1])
    THEN LET a == SkipSpace(t, 2)
         IN  IF a <= Len(t) /\ t[a] \in {":", "-"}
             THEN SubSeq(t, SkipSpace(t, a + 1), Len(t))
             ELSE t
    ELSE t

_convert_mcq_format(answer) ==
    LET stripped == Strip(answer)
    IN  IF stripped = <<"1">> THEN <<"A">>
        ELSE IF stripped = <<"2">> THEN <<"B">>
        ELSE IF stripped = <<"3">> THEN <<"C">>
        ELSE IF stripped = <<"4">> THEN <<"D">>
        ELSE answer

\* re.sub(r'\n{3,}', '\n\n', text)
RECURSIVE CollapseBlankLines(_)
CollapseBlankLines(t) ==
    IF Len(t) = 0 THEN <<>>
    ELSE IF Len(t) >= 3 /\ t[1] = "\n" /\ t[2] = "\n" /\ t[3] = "\n"
    THEN CollapseBlankLines(Tail(t))
    ELSE <<t[1]>> \o CollapseBlankLines(Tail(t))

_clean_answer(text) ==
    Strip(CollapseBlankLines(_convert_mcq_format(StripAnswerPrefix(Strip(text)))))

CleanAll(d) == [k \in DOMAIN d |-> [d[k] EXCEPT !.a = _clean_answer(@)]]

\* faulty variant: the unstructured text is dropped
WholeTextDropped(text) == <<>>

\* the map returned when no structured answer is found (lines 40-42, 89-91)
WholeTextAsQ1(text) == <<[q |-> 1, a |-> _clean_answer(text)]>>

\* faulty variant: only the empty string is caught
IsEmptyTextNoStrip(text) == Len(text) = 0

\* line 19: not text or not text.strip()
IsEmptyText(text) == Len(Strip(text)) = 0

\* parse_answers as a function of the raw text
parse_answers(text) ==
    IF IsEmptyText(text) THEN <<>>
    ELSE LET t == InsertBreaks(text)
             ps == SplitParts(t)
             cleaned == CleanAll(MarkerLoop(ps, NumMarkers(ps)).answers)
         IN  IF Len(_try_pure_mcq(t)) > 0 THEN _try_pure_mcq(t)
             ELSE IF Len(ps) = 1 THEN WholeTextAsQ1(t)
             ELSE IF Len(cleaned) = 0 THEN WholeTextAsQ1(t)
             ELSE cleaned

----------------------------------------------------------------------------
(***************************************************************************)
(* Answer texts fed to parse_answers                                       *)
(***************************************************************************)
MaxSheetLines == 4

MaxChunks == 3

RECURSIVE Concat(_)
Concat(ss) == IF Len(ss) = 0 THEN <<>> ELSE Head(ss) \o Concat(Tail(ss))

\* "\n".join(ls)
RECURSIVE JoinLines(_)
JoinLines(ls) ==
    IF Len(ls) = 0 THEN <<>>
    ELSE IF Len(ls) = 1 THEN ls[1]
    ELSE ls[1] \o <<"\n">> \o JoinLines(Tail(ls))

\* lines of an answer sheet: option letters, a word, a numbered line, a
\* letter followed by a numbered item (two columns read as one line), a blank
SheetLineKinds ==
    { <<"A">>, <<"b">>, <<"(", "C", ")">>, <<"foo">>, <<"1", ".", " ", "x">>,
      <<"D", " ", "1", ".", " ", "x">>, <<>> }

SheetTexts == { JoinLines(ls) : ls \in SeqsUpTo(SheetLineKinds, MaxSheetLines) }

\* fragments of free-form answers: markers with and without prefix, a word,
\* white space, an answer prefix, a lone digit
TextChunks ==
    { <<"Q", "1", ".", " ">>, <<"2", ".", " ">>, <<"1", ")", " ">>, <<"7", ".", " ">>,
      <<"x">>, <<"\n">>, <<" ">>, <<"Ans", ":", " ">>, <<"3">> }

ChunkTexts == { Concat(cs) : cs \in SeqsUpTo(TextChunks, MaxChunks) }

\* "Q1. First (1) alpha (2) beta Q2. Second"
NestedNumbersText ==
    <<"Q", "1", ".", " ", "First", " ", "(", "1", ")", " ", "alpha", " ",
      "(", "2", ")", " ", "beta", " ", "Q", "2", ".", " ", "Second">>

\* "Q1. x", new line, "Q1. foo": the same question marked twice
RepeatedNumberText ==
    <<"Q", "1", ".", " ", "x", "\n", "Q", "1", ".", " ", "foo">>

AnswerInputs == SheetTexts \cup ChunkTexts \cup {NestedNumbersText, RepeatedNumberText}

----------------------------------------------------------------------------
(***************************************************************************)
(* parse_answers as a state machine                                        *)
(***************************************************************************)
InitAnswers ==
    /\ sheet_text \in AnswerInputs
    /\ broken = <<>>
    /\ parts = <<>>
    /\ answers = <<>>
    /\ current_q = -1
    /\ seen_qs = {}
    /\ preamble = <<>>
    /\ marker_idx = 0
    /\ apc = "start"
    /\ parse_result = <<>>

\* no call of parse_answers in this behaviour
IdleAnswers ==
    /\ sheet_text = <<>>
    /\ broken = <<>>
    /\ parts = <<>>
    /\ answers = <<>>
    /\ current_q = -1
    /\ seen_qs = {}
    /\ preamble = <<>>
    /\ marker_idx = 0
    /\ apc = "idle"
    /\ parse_result = <<>>

\* lines 19-21
ReturnEmpty ==
    /\ apc = "start"
    /\ IsEmptyText(sheet_text)
    /\ parse_result' = <<>>
    /\ apc' = "done"
    /\ UNCHANGED <<sheet_text, broken, parts, answers, current_q, seen_qs, preamble, marker_idx>>
    /\ UNCHANGED <<paperVars, reconVars, evalVars, extractVars>>

\* line 25
InsertLineBreaks ==
    /\ apc = "start"
    /\ ~IsEmptyText(sheet_text)
    /\ broken' = InsertBreaks(sheet_text)
    /\ apc' = "mcq"
    /\ UNCHANGED <<sheet_text, parts, answers, current_q, seen_qs, preamble, marker_idx, parse_result>>
    /\ UNCHANGED <<paperVars, reconVars, evalVars, extractVars>>

\* lines 28-31, the sheet is detected as pure MCQ
ReturnPureMcq ==
    /\ apc = "mcq"
    /\ Len(_try_pure_mcq(broken)) > 0
    /\ parse_result' = _try_pure_mcq(broken)
    /\ apc' = "done"
    /\ UNCHANGED <<sheet_text, broken, parts, answers, current_q, seen_qs, preamble, marker_idx>>
    /\ UNCHANGED <<paperVars, reconVars, evalVars, extractVars>>

\* lines 37-38
SplitOnMarkers ==
    /\ apc = "mcq"
    /\ Len(_try_pure_mcq(broken)) = 0
    /\ parts' = SplitParts(broken)
    /\ apc' = "split"
    /\ UNCHANGED <<sheet_text, broken, answers, current_q, seen_qs, preamble, marker_idx, parse_result>>
    /\ UNCHANGED <<paperVars, reconVars, evalVars, extractVars>>

\* lines 40-42
ReturnWholeText ==
    /\ apc = "split"
    /\ Len(parts) = 1
    /\ parse_result' = WholeTextAsQ1(broken)
    /\ apc' = "done"
    /\ UNCHANGED <<sheet_text, broken, parts, answers, current_q, seen_qs, preamble, marker_idx>>
    /\ UNCHANGED <<paperVars, reconVars, evalVars, extractVars>>

SetLoop(st) ==
    /\ answers' = st.answers
    /\ current_q' = st.current_q
    /\ seen_qs' = st.seen_qs
    /\ preamble' = st.preamble

CurLoop ==
    [answers |-> answers, current_q |-> current_q, seen_qs |-> seen_qs,
     preamble |-> preamble]

\* lines 44-48
EnterLoop ==
    /\ apc = "split"
    /\ Len(parts) > 1
    /\ SetLoop(LoopStart(parts))
    /\ marker_idx' = 0
    /\ apc' = "loop"
    /\ UNCHANGED <<sheet_text, broken, parts, parse_result>>
    /\ UNCHANGED <<paperVars, reconVars, evalVars, extractVars>>

\* the next marker of the loop, bullet or not
AtMarker(bullet) ==
    /\ apc = "loop"
    /\ marker_idx < NumMarkers(parts)
    /\ is_bullet(has_explicit_marker(parts[4 * marker_idx + 2]), IntOf(parts[4 * marker_idx + 3]),
                 current_q, seen_qs) = bullet
    /\ SetLoop(MarkerStep(CurLoop, parts, 4 * marker_idx + 2))
    /\ UNCHANGED <<sheet_text, broken, parts, apc, parse_result>>
    /\ UNCHANGED <<paperVars, reconVars, evalVars, extractVars>>

\* lines 69-73
MergeBullet == AtMarker(TRUE) /\ marker_idx' = marker_idx + 1

\* lines 74-85
NewAnswer == AtMarker(FALSE) /\ marker_idx' = marker_idx + 1

\* lines 87-94
ReturnCleaned ==
    /\ apc = "loop"
    /\ marker_idx = NumMarkers(parts)
    /\ parse_result' = IF Len(CleanAll(answers)) = 0
                       THEN WholeTextAsQ1(broken) ELSE CleanAll(answers)
    /\ apc' = "done"
    /\ UNCHANGED <<sheet_text, broken, parts, answers, current_q, seen_qs, preamble, marker_idx>>
    /\ UNCHANGED <<paperVars, reconVars, evalVars, extractVars>>

NextAnswers ==
    \/ ReturnEmpty
    \/ InsertLineBreaks
    \/ ReturnPureMcq
    \/ SplitOnMarkers
    \/ ReturnWholeText
    \/ EnterLoop
    \/ MergeBullet
    \/ NewAnswer
    \/ ReturnCleaned

----------------------------------------------------------------------------
(***************************************************************************)
(* Smart answer mapping (students.py, process_submission and               *)
(* process_submission_multiple hold the same code).  Question and answer   *)
(* texts are symbol sequences as in the answer parser.                     *)
(***************************************************************************)
\* \w
IsWordSym(c) == ~IsSpace(c) /\ c \notin {".", ")", "(", ":", "-", ",", "?"}

\* str.lower() on one symbol
Lower(c) ==
    CASE c = "A" -> "a" [] c = "B" -> "b" [] c = "C" -> "c" [] c = "D" -> "d"
      [] c = "Q" -> "q" [] c = "Ans" -> "ans" [] c = "Sol" -> "sol"
      [] c = "Force" -> "force" [] c = "Energy" -> "energy" [] c = "Mass" -> "mass"
      [] c = "First" -> "first" [] c = "Second" -> "second"
      [] OTHER -> c

\* set(re.findall(r'\w+', t.lower())): the maximal runs of word symbols
RECURSIVE WordRuns(_, _, _)
WordRuns(t, p, run) ==
    IF p > Len(t) THEN (IF run = <<>> THEN {} ELSE {run})
    ELSE IF IsWordSym(t[p]) THEN WordRuns(t, p + 1, Append(run, Lower(t[p])))
    ELSE (IF run = <<>> THEN {} ELSE {run}) \cup WordRuns(t, p + 1, <<>>)

WordSet(t) == WordRuns(t, 1, <<>>)

\* len(ans_words.intersection(q_words))
Overlap(ans_text, question_text) == Cardinality(WordSet(ans_text) \cap WordSet(question_text))

\* d[q] = a on an insertion-ordered dict
Put(d, q, a) ==
    IF HasKey(d, q)
    THEN [k \in DOMAIN d |-> IF d[k].q = q THEN [q |-> q, a |-> a] ELSE d[k]]
    ELSE Append(d, [q |-> q, a |-> a])

\* any(q.question_number == q_num for q in paper.questions)
InPaper(qs, q_num) == \E k \in DOMAIN qs : qs[k].question_number = q_num

\* lines 154-160
MappedPart(qs, parsed) == SelectSeq(parsed, LAMBDA e : InPaper(qs, e.q))

UnmappedPart(qs, parsed) ==
    LET rest == SelectSeq(parsed, LAMBDA e : ~InPaper(qs, e.q))
    IN  [k \in DOMAIN rest |-> rest[k].a]

\* faulty variant: every question of the paper is a candidate
UnmappedQuestionsAll(qs, mapped) == qs

\* line 162
UnmappedQuestions(qs, mapped) == SelectSeq(qs, LAMBDA q : ~HasKey(mapped, q.question_number))

\* line 170
IsSingleMissingMap(ua, uq) == Len(ua) = 1 /\ Len(uq) = 1

\* faulty variant: the single pair is dropped instead of assigned
SingleMapSkipped(mapped, uq, ans_text) == mapped

\* line 171
SingleMapAssign(mapped, uq, ans_text) == Put(mapped, uq[1].question_number, ans_text)

\* faulty variant: a later question with an equal score replaces the best one
IsBetterOrEqual(score, best_score) == score >= best_score

\* line 182
IsBetter(score, best_score) == score > best_score

\* lines 175-184 after the first k questions of the pool; best_q is an index
\* into the pool, 0 for None
RECURSIVE ScanBest(_, _, _)
ScanBest(pool, ans_text, k) ==
    IF k = 0 THEN [best_q |-> 0, best_score |-> -1]
    ELSE LET prev == ScanBest(pool, ans_text, k - 1)
             score == Overlap(ans_text, pool[k].question_text)
         IN  IF IsBetter(score, prev.best_score)
             THEN [best_q |-> k, best_score |-> score]
             ELSE prev

\* faulty variant: the chosen question stays in the pool
RemoveNone(seq, k) == seq

\* list.remove of the element at index k
RemoveAt(seq, k) == SubSeq(seq, 1, k - 1) \o SubSeq(seq, k + 1, Len(seq))

\* what the block hands to the evaluation loop (line 194 reads mapped_answers
\* only; nothing else survives the block)
Reported == [mapped_answers |-> mapped_answers]

MaxQuestions == 3

MaxAnswers == 2

QTexts == { <<"force", " ", "mass">>, <<"Energy", " ", "force">>, <<"mass">> }

AnsTexts == { <<"Force">>, <<"Energy", " ", "force">>, <<"x">> }

DraftKeys == {1, 7, 9}

\* a stored paper: questions numbered 1..N in document order
NumberedPaper(ts) == [k \in DOMAIN ts |-> [question_number |-> k, question_text |-> ts[k]]]

Papers == { NumberedPaper(ts) : ts \in SeqsUpTo(QTexts, MaxQuestions) }

Drafts ==
    { d \in SeqsUpTo([q : DraftKeys, a : AnsTexts], MaxAnswers) :
        \A j, k \in DOMAIN d : j # k => d[j].q # d[k].q }

\* five questions, answers numbered 1, 2, 4 and 7
FivePapers ==
    { NumberedPaper(<<<<"mass">>, <<"mass">>, t3, <<"mass">>, t5>>) : t3, t5 \in QTexts }

FiveDrafts ==
    { <<[q |-> 1, a |-> <<"x">>], [q |-> 2, a |-> <<"x">>], [q |-> 4, a |-> <<"x">>],
        [q |-> 7, a |-> a7]>> : a7 \in AnsTexts }

ReconInputs == (Papers \X Drafts) \cup (FivePapers \X FiveDrafts)

InitRecon ==
    /\ \E inp \in ReconInputs :
           /\ paper_questions = inp[1]
           /\ parsed_answers = inp[2]
    /\ mapped_answers = <<>>
    /\ unmapped_answers = <<>>
    /\ unmapped_questions = <<>>
    /\ ans_idx = 0
    /\ rpc = "partition"

\* no submission is processed in this behaviour
IdleRecon ==
    /\ paper_questions = <<>>
    /\ parsed_answers = <<>>
    /\ mapped_answers = <<>>
    /\ unmapped_answers = <<>>
    /\ unmapped_questions = <<>>
    /\ ans_idx = 0
    /\ rpc = "idle"

\* lines 154-162
Partition ==
    /\ rpc = "partition"
    /\ mapped_answers' = MappedPart(paper_questions, parsed_answers)
    /\ unmapped_answers' = UnmappedPart(paper_questions, parsed_answers)
    /\ unmapped_questions' =
           UnmappedQuestions(paper_questions, MappedPart(paper_questions, parsed_answers))
    /\ ans_idx' = 0
    /\ rpc' = "loop"
    /\ UNCHANGED <<paper_questions, parsed_answers, paperVars, answerVars, evalVars, extractVars>>

\* lines 166-167: break on an empty pool
PoolEmpty ==
    /\ rpc = "loop"
    /\ ans_idx < Len(unmapped_answers)
    /\ unmapped_questions = <<>>
    /\ rpc' = "done"
    /\ UNCHANGED <<paper_questions, parsed_answers, mapped_answers, unmapped_answers,
                   unmapped_questions, ans_idx, paperVars, answerVars, evalVars, extractVars>>

\* lines 170-173
MapSingle ==
    /\ rpc = "loop"
    /\ ans_idx < Len(unmapped_answers)
    /\ unmapped_questions # <<>>
    /\ IsSingleMissingMap(unmapped_answers, unmapped_questions)
    /\ mapped_answers' =
           SingleMapAssign(mapped_answers, unmapped_questions, unmapped_answers[ans_idx + 1])
    /\ unmapped_questions' = Tail(unmapped_questions)
    /\ rpc' = "done"
    /\ UNCHANGED <<paper_questions, parsed_answers, unmapped_answers, ans_idx,
                   paperVars, answerVars, evalVars, extractVars>>

\* lines 175-188
MapBest ==
    /\ rpc = "loop"
    /\ ans_idx < Len(unmapped_answers)
    /\ unmapped_questions # <<>>
    /\ ~IsSingleMissingMap(unmapped_answers, unmapped_questions)
    /\ LET ans_text == unmapped_answers[ans_idx + 1]
           best_q == ScanBest(unmapped_questions, ans_text, Len(unmapped_questions)).best_q
       IN  IF best_q # 0
           THEN /\ mapped_answers' =
                       Put(mapped_answers, unmapped_questions[best_q].question_number, ans_text)
                /\ unmapped_questions' = RemoveAt(unmapped_questions, best_q)
           ELSE UNCHANGED <<mapped_answers, unmapped_questions>>
    /\ ans_idx' = ans_idx + 1
    /\ UNCHANGED <<paper_questions, parsed_answers, unmapped_answers, rpc,
                   paperVars, answerVars, evalVars, extractVars>>

\* the for loop runs out of answers
LoopEnd ==
    /\ rpc = "loop"
    /\ ans_idx = Len(unmapped_answers)
    /\ rpc' = "done"
    /\ UNCHANGED <<paper_questions, parsed_answers, mapped_answers, unmapped_answers,
                   unmapped_questions, ans_idx, paperVars, answerVars, evalVars, extractVars>>

NextRecon ==
    \/ Partition
    \/ PoolEmpty
    \/ MapSingle
    \/ MapBest
    \/ LoopEnd

----------------------------------------------------------------------------
(***************************************************************************)
(* The evaluation loop of process_submission_multiple (students.py         *)
(* 194-290) and process_submission (397-432).  Answer texts are symbol     *)
(* sequences as in the answer parser; a question row carries the columns   *)
(* the loop reads.                                                         *)
(***************************************************************************)
MaxEvalQuestions == 3

\* mapped_answers.get(question.question_number, "").strip()
student_answer(answer_map, question) ==
    Strip(IF HasKey(answer_map, question.question_number)
          THEN Get(answer_map, question.question_number)
          ELSE <<>>)

\* mcq_evaluator.evaluate_mcq: full marks when the stored letter stands in
\* the answer as a word of its own (case-insensitive), 0 otherwise and when
\* no correct answer is stored.  The rows carry no option texts, so the
\* comparison with the option text (lines 82-88) never applies.
evaluate_mcq(question, answer) ==
    LET correct_choice == IF question.correct_answer = "None" THEN ""
                          ELSE question.correct_answer
        is_correct == /\ correct_choice # ""
                      /\ Len(answer) > 0
                      /\ \E k \in DOMAIN answer : Upper(answer[k]) = correct_choice
    IN  IF is_correct THEN question.marks ELSE 0

\* the scores EvaluationService.evaluate_answer can return: a validated LLM
\* score 0..max_score, or the fallback max_score // 2
evaluate_answer_scores(max_score) == 0..max_score

\* crud_evaluation.create_evaluation
EvaluationRow(question, answer, score) ==
    [question_number |-> question.question_number,
     student_answer  |-> answer,
     marks_obtained  |-> score,
     max_marks       |-> question.marks]

McqRow(k)   == [question_number |-> k, question_type |-> "mcq", marks |-> 1,
                correct_answer |-> "B"]

ShortRow(k) == [question_number |-> k, question_type |-> "short", marks |-> 2,
                correct_answer |-> "None"]

EvalPapers ==
    UNION { { [k \in 1..n |-> IF mcq[k] THEN McqRow(k) ELSE ShortRow(k)] :
                mcq \in [1..n -> BOOLEAN] } : n \in 0..MaxEvalQuestions }

\* no entry, a white-space entry or the answer "B"
EvalAnswerTexts == << <<" ">>, <<"B">> >>

RECURSIVE AnswerMapOf(_, _)
AnswerMapOf(choice, n) ==
    IF n = 0 THEN <<>>
    ELSE IF choice[n] = 0 THEN AnswerMapOf(choice, n - 1)
    ELSE Append(AnswerMapOf(choice, n - 1), [q |-> n, a |-> EvalAnswerTexts[choice[n]]])

EvalAnswerMaps(n) == { AnswerMapOf(choice, n) : choice \in [1..n -> 0..2] }

InitEval ==
    /\ pipeline \in {"multiple", "single"}
    /\ eval_questions \in EvalPapers
    /\ eval_answers \in EvalAnswerMaps(Len(eval_questions))
    /\ eval_idx = 0
    /\ evaluations = <<>>
    /\ status = "pending"
    /\ epc = IF pipeline = "multiple" THEN "created" ELSE "loop"

\* no submission is evaluated in this behaviour
IdleEval ==
    /\ pipeline = "none"
    /\ eval_questions = <<>>
    /\ eval_answers = <<>>
    /\ eval_idx = 0
    /\ evaluations = <<>>
    /\ status = "pending"
    /\ epc = "idle"

\* submit_answer at position p, the submission row being created (line 97)
InSubmission(p) ==
    /\ pipeline = "multiple"
    /\ epc = p
    /\ UNCHANGED <<pipeline, eval_questions, eval_answers, eval_idx, evaluations,
                   paperVars, answerVars, reconVars, extractVars>>

\* faulty variant: the submission is left pending
StatusOnSubmitPending == "pending"

\* the status written at line 98, SubmissionStatus.EVALUATING
StatusOnSubmit == "evaluating"

\* line 98
SetEvaluating ==
    /\ InSubmission("created")
    /\ status' = StatusOnSubmit
    /\ epc' = "marked"

\* line 102: background_tasks.add_task(process_submission_multiple, ...)
ScheduleProcessing ==
    /\ InSubmission("marked")
    /\ epc' = "scheduled"
    /\ UNCHANGED status

\* lines 107-193: OCR, answer parsing and answer mapping went through
RunProcessing ==
    /\ InSubmission("scheduled")
    /\ epc' = "loop"
    /\ UNCHANGED status

\* the loop is at question eval_questions[eval_idx + 1] of pipeline p
AtQuestion(p) ==
    /\ epc = "loop"
    /\ pipeline = p
    /\ eval_idx < Len(eval_questions)
    /\ UNCHANGED <<pipeline, eval_questions, eval_answers, paperVars, answerVars, reconVars, extractVars>>

StoreEvaluation(score) ==
    /\ evaluations' = Append(evaluations,
           EvaluationRow(eval_questions[eval_idx + 1],
                         student_answer(eval_answers, eval_questions[eval_idx + 1]), score))
    /\ eval_idx' = eval_idx + 1
    /\ UNCHANGED <<status, epc>>

\* lines 207-210
EvaluateMcq ==
    /\ AtQuestion("multiple")
    /\ LET question == eval_questions[eval_idx + 1]
       IN  /\ question.question_type = "mcq"
           /\ StoreEvaluation(evaluate_mcq(question, student_answer(eval_answers, question)))

\* lines 211-222: descriptive but empty, 0 without calling the evaluator
AwardZeroUnanswered ==
    /\ AtQuestion("multiple")
    /\ LET question == eval_questions[eval_idx + 1]
       IN  /\ question.question_type # "mcq"
           /\ student_answer(eval_answers, question) = <<>>
           /\ StoreEvaluation(0)

\* lines 223-272: evaluate_answer is called with the keywords marking_scheme
\* and rag_scores, which its signature (evaluation_service.py 51-60) does
\* not have; the TypeError ends the loop in the handler of lines 320-327
EvaluateDescriptive ==
    /\ AtQuestion("multiple")
    /\ LET question == eval_questions[eval_idx + 1]
       IN  /\ question.question_type # "mcq"
           /\ student_answer(eval_answers, question) # <<>>
    /\ status' = "failed"
    /\ epc' = "done"
    /\ UNCHANGED <<eval_idx, evaluations>>

\* lines 397-430: every question goes to evaluate_answer
EvaluateAnswer ==
    /\ AtQuestion("single")
    /\ \E score \in evaluate_answer_scores(eval_questions[eval_idx + 1].marks) :
           StoreEvaluation(score)

\* lines 290 and 432
MarkEvaluated ==
    /\ epc = "loop"
    /\ eval_idx = Len(eval_questions)
    /\ status' = "evaluated"
    /\ epc' = "done"
    /\ UNCHANGED <<pipeline, eval_questions, eval_answers, eval_idx, evaluations,
                   paperVars, answerVars, reconVars, extractVars>>

NextEval ==
    \/ SetEvaluating
    \/ ScheduleProcessing
    \/ RunProcessing
    \/ EvaluateMcq
    \/ AwardZeroUnanswered
    \/ EvaluateDescriptive
    \/ EvaluateAnswer
    \/ MarkEvaluated

----------------------------------------------------------------------------
(***************************************************************************)
(* extract_questions_from_pdf (question_paper_ocr_service.py 100-117) run  *)
(* by two requests at once on PDFs that teachers.py stored in the same     *)
(* directory (UPLOAD_DIR/temp).  A page image is named after its page      *)
(* index alone; what a file holds is identified by the invocation whose    *)
(* PDF it was rendered from.                                               *)
(***************************************************************************)
MaxPages == 2

Invocations == {1, 2}

PageIndices == 0..(MaxPages - 1)

InitExtract ==
    /\ num_pages \in [Invocations -> 1..MaxPages]
    /\ page_files = [k \in PageIndices |-> 0]
    /\ page_idx = [p \in Invocations |-> 0]
    /\ temp_images = [p \in Invocations |-> <<>>]
    /\ parsed_pages = [p \in Invocations |-> <<>>]
    /\ xpc = [p \in Invocations |-> "save"]

\* no PDF is extracted in this behaviour
IdleExtract ==
    /\ num_pages = [p \in Invocations |-> 0]
    /\ page_files = [k \in PageIndices |-> 0]
    /\ page_idx = [p \in Invocations |-> 0]
    /\ temp_images = [p \in Invocations |-> <<>>]
    /\ parsed_pages = [p \in Invocations |-> <<>>]
    /\ xpc = [p \in Invocations |-> "idle"]

\* image.save(tmp, 'PNG') on tmp = <dir>/temp_page_<idx>.png (lines 106-107)
SavedFile(files, idx, p) == [files EXCEPT ![idx] = p]

\* lines 105-108: the page is rendered to its temp file and remembered
SavePage ==
    \E p \in Invocations :
        /\ xpc[p] = "save"
        /\ page_idx[p] < num_pages[p]
        /\ page_files' = SavedFile(page_files, page_idx[p], p)
        /\ temp_images' = [temp_images EXCEPT ![p] = Append(@, page_idx[p])]
        /\ xpc' = [xpc EXCEPT ![p] = "parse"]
        /\ UNCHANGED <<num_pages, page_idx, parsed_pages>>
        /\ UNCHANGED <<paperVars, answerVars, reconVars, evalVars>>

\* line 109: extract_questions_from_image(tmp) reads whatever the file holds
ParsePage ==
    \E p \in Invocations :
        /\ xpc[p] = "parse"
        /\ page_files[page_idx[p]] # 0
        /\ parsed_pages' = [parsed_pages EXCEPT ![p] = Append(@, page_files[page_idx[p]])]
        /\ page_idx' = [page_idx EXCEPT ![p] = @ + 1]
        /\ xpc' = [xpc EXCEPT ![p] = "save"]
        /\ UNCHANGED <<num_pages, page_files, temp_images>>
        /\ UNCHANGED <<paperVars, answerVars, reconVars, evalVars>>

\* line 109 on a file that is gone: OCRService raises FileNotFoundError
\* (ocr_service.py 70-71) and the finally block takes over
ParseMissingPage ==
    \E p \in Invocations :
        /\ xpc[p] = "parse"
        /\ page_files[page_idx[p]] = 0
        /\ xpc' = [xpc EXCEPT ![p] = "cleanup_raised"]
        /\ UNCHANGED <<num_pages, page_files, page_idx, temp_images, parsed_pages>>
        /\ UNCHANGED <<paperVars, answerVars, reconVars, evalVars>>

\* lines 110-112: the loop is over, the result is ready
EndOfPages ==
    \E p \in Invocations :
        /\ xpc[p] = "save"
        /\ page_idx[p] = num_pages[p]
        /\ xpc' = [xpc EXCEPT ![p] = "cleanup"]
        /\ UNCHANGED <<num_pages, page_files, page_idx, temp_images, parsed_pages>>
        /\ UNCHANGED <<paperVars, answerVars, reconVars, evalVars>>

\* lines 114-116: one iteration of the finally loop; os.remove if the file
\* exists, whoever wrote it last
RemoveTempImage ==
    \E p \in Invocations :
        /\ xpc[p] \in {"cleanup", "cleanup_raised"}
        /\ temp_images[p] # <<>>
        /\ page_files' = [page_files EXCEPT ![Head(temp_images[p])] = 0]
        /\ temp_images' = [temp_images EXCEPT ![p] = Tail(@)]
        /\ UNCHANGED <<num_pages, page_idx, parsed_pages, xpc>>
        /\ UNCHANGED <<paperVars, answerVars, reconVars, evalVars>>

\* the finally block is through: the call returns or the exception goes on
LeaveExtraction ==
    \E p \in Invocations :
        /\ xpc[p] \in {"cleanup", "cleanup_raised"}
        /\ temp_images[p] = <<>>
        /\ xpc' = [xpc EXCEPT ![p] = IF xpc[p] = "cleanup" THEN "returned" ELSE "raised"]
        /\ UNCHANGED <<num_pages, page_files, page_idx, temp_images, parsed_pages>>
        /\ UNCHANGED <<paperVars, answerVars, reconVars, evalVars>>

NextExtract ==
    \/ SavePage
    \/ ParsePage
    \/ ParseMissingPage
    \/ EndOfPages
    \/ RemoveTempImage
    \/ LeaveExtraction

----------------------------------------------------------------------------
(***************************************************************************)
(* Specifications.  A behaviour is one run of one of the five units, or    *)
(* a call of each parser on a blank text.                                  *)
(***************************************************************************)
PaperCall == InitPaper /\ IdleAnswers /\ IdleRecon /\ IdleEval /\ IdleExtract

AnswersCall == IdlePaper /\ InitAnswers /\ IdleRecon /\ IdleEval /\ IdleExtract

ReconCall == IdlePaper /\ IdleAnswers /\ InitRecon /\ IdleEval /\ IdleExtract

EvalCall == IdlePaper /\ IdleAnswers /\ IdleRecon /\ InitEval /\ IdleExtract

ExtractCall == IdlePaper /\ IdleAnswers /\ IdleRecon /\ IdleEval /\ InitExtract

SpecPaper == PaperCall /\ [][NextPaper]_vars

SpecAnswers == AnswersCall /\ [][NextAnswers]_vars

SpecRecon == ReconCall /\ [][NextRecon]_vars

SpecEval == EvalCall /\ [][NextEval]_vars

SpecExtract == ExtractCall /\ [][NextExtract]_vars

\* every line is empty after strip()
IsBlankPaper(ls) == \A k \in DOMAIN ls : ls[k].kind = "blank"

Init ==
    \/ PaperCall
    \/ AnswersCall
    \/ ReconCall
    \/ EvalCall
    \/ ExtractCall
    \/ InitPaper /\ IsBlankPaper(lines) /\ InitAnswers /\ IsEmptyText(sheet_text) /\ IdleRecon
          /\ IdleEval /\ IdleExtract

Next ==
    \/ NextPaper
    \/ NextAnswers
    \/ NextRecon
    \/ NextEval
    \/ NextExtract

Spec == Init /\ [][Next]_vars

----------------------------------------------------------------------------
(***************************************************************************)
(* Properties of the paper parser                                          *)
(***************************************************************************)
\* Line t opens a question in a section that expects internal choice, line
\* t+1 is a standalone OR, line t+2 is a question start with the same source
\* number; both bodies are non-empty.
OrPairAt(t) ==
    /\ t + 2 <= Len(lines)
    /\ Branch(After(lines, t - 1), lines[t]) = "qstart"
    /\ After(lines, t).cur_lines = <<lines[t].text>>
    /\ lines[t].text # ""
    /\ After(lines, t).section_cfg.internal_choice
    /\ lines[t + 1].kind = "or"
    /\ lines[t + 2].kind = "q"
    /\ lines[t + 2].num = lines[t].num
    /\ lines[t + 2].text # ""

\* The line that ends the second block begun at line t+2: the first later
\* line that is not absorbed into the open question, Len(lines)+1 at end of input
BlockEnd(t) ==
    LET later == { c \in (t + 3)..Len(lines) :
                     Branch(After(lines, c - 1), lines[c])
                        \notin {"blank", "option", "continuation"} }
    IN  IF later = {} THEN Len(lines) + 1
        ELSE CHOOSE c \in later : \A c2 \in later : c <= c2

\* The pair is a complete two-alternative group: it is ended by the end of
\* input, a section header or a question start with another source number.
TwoBlockGroupAt(t) ==
    /\ OrPairAt(t)
    /\ LET c == BlockEnd(t)
       IN  \/ c = Len(lines) + 1
           \/ lines[c].kind = "section"
           \/ lines[c].kind = "q" /\ lines[c].num # lines[t].num

C2_SequentialNumbering ==
    /\ \A k \in DOMAIN questions : questions[k].question_number = k
    /\ global_q_num = Len(questions) + 1

\* two questions emitted from source numbers 17, 17, 18 with one OR merge
C2_Witness ==
    /\ Len(questions) >= 2
    /\ \E k \in DOMAIN questions : questions[k].has_or_option
    /\ \E k \in DOMAIN lines : lines[k].kind = "q" /\ lines[k].num = 18

\* lines of the form "Q<k>. <text> (<m> marks)"
WellFormedMarksLines == {P5e, P2f, P5g}

\* C3 (as claimed): N well-formed lines without section headers give N
\* questions numbered 1..N whatever the embedded numbers are.
C3_PlainNumberedSequentially ==
    (pc = "done" /\ \A k \in DOMAIN lines : lines[k] \in WellFormedMarksLines) =>
        /\ Len(result) = Len(lines)
        /\ \A k \in DOMAIN result : result[k].question_number = k

\* question_text as one string
RECURSIVE FlattenText(_)
FlattenText(ps) == IF Len(ps) = 0 THEN "" ELSE Head(ps) \o FlattenText(Tail(ps))

\* the alternatives of a question text: its pieces between "\nOR\n" separators
RECURSIVE SplitAtOr(_, _)
SplitAtOr(ps, acc) ==
    IF Len(ps) = 0 THEN <<acc>>
    ELSE IF Head(ps) = "\nOR\n" THEN <<acc>> \o SplitAtOr(Tail(ps), <<>>)
    ELSE SplitAtOr(Tail(ps), Append(acc, Head(ps)))

MarksSuffix(marks) == " (" \o ToString(marks) \o " marks)"

\* the lines of "<n>. <text> (<m> marks)" as text.split('\n') returns them: a
\* text without line break is one question line with marks annotation; a
\* merged text gives "<n>. <body1>", then "OR" and a body line per further
\* alternative, the last one carrying the annotation
RECURSIVE RenderRest(_, _)
RenderRest(alts, marks) ==
    IF Len(alts) = 0 THEN <<>>
    ELSE IF Len(alts) = 1
    THEN <<OrLine, TextLine(FlattenText(alts[1]) \o MarksSuffix(marks))>>
    ELSE <<OrLine, TextLine(FlattenText(alts[1]))>> \o RenderRest(Tail(alts), marks)

RenderQuestion(q) ==
    LET alts == SplitAtOr(q.question_text, <<>>)
        head == ToString(q.question_number) \o ". " \o FlattenText(alts[1])
    IN  IF Len(alts) = 1
        THEN <<QMarksLine(head \o MarksSuffix(q.marks), q.question_number,
                          FlattenText(alts[1]) \o MarksSuffix(q.marks),
                          FlattenText(alts[1]), q.marks)>>
        ELSE <<QLine(head, q.question_number, FlattenText(alts[1]))>>
                \o RenderRest(Tail(alts), q.marks)

RECURSIVE RenderPaper(_)
RenderPaper(qs) ==
    IF Len(qs) = 0 THEN <<>> ELSE RenderQuestion(Head(qs)) \o RenderPaper(Tail(qs))

\* C11 (as claimed): re-parsing the rendering "<n>. <text> (<m> marks)" of a
\* parsed paper gives as many questions, with the same marks at each position.
C11_RoundTripKeepsMarks ==
    (pc = "done" /\ Len(result) > 0) =>
        LET again == _parse_questions(RenderPaper(result))
        IN  /\ Len(again) = Len(result)
            /\ \A k \in DOMAIN result : again[k].marks = result[k].marks

\* C12 (as claimed): the list returned by a call is the one a new service
\* instance returns for the same text, whatever was parsed on the instance
\* before; the same text therefore gives equal lists each time.
C12_ResultDependsOnTextOnly ==
    pc = "done" => result = _parse_questions(lines)

\* the header line in force for a question flushed while line k is handled
\* (k = Len(ls) + 1 for the final flush): the last header before line k
HeaderBefore(ls, k) ==
    LET hs == { h \in 1..(k - 1) : ls[h].kind = "section" }
    IN  CHOOSE h \in hs : \A h2 \in hs : h2 <= h

StaticDefaultMarks(sec) ==
    CASE sec = "A" -> 1 [] sec = "B" -> 2 [] sec = "C" -> 3 [] sec = "D" -> 4
      [] sec = "E" -> 5

\* M of the annotation of header line h: the header's own, else that of the
\* first annotated line among the four lines after it, else the default
AnnouncedMarks(ls, h) ==
    LET after == { j \in (h + 1)..(h + 4) : j <= Len(ls) /\ ls[j].nq >= 0 }
    IN  IF ls[h].nq >= 0 THEN ls[h].mpq
        ELSE IF after # {} THEN ls[CHOOSE j \in after : \A j2 \in after : j <= j2].mpq
        ELSE StaticDefaultMarks(ls[h].section)

\* C13: a question emitted under a section header carries the M of the
\* "N x M = T" annotation of the header line or of the lines right after it
\* (the first annotated one of the next four), the static default of the
\* section letter when there is none; its marks never change afterwards.
C13_MarksFromAnnotationOrDefault ==
    [][ /\ Len(questions') = Len(questions) + 1 =>
            Last(questions').marks = AnnouncedMarks(lines, HeaderBefore(lines, i + 1))
        /\ \A k \in DOMAIN questions \cap DOMAIN questions' :
            questions'[k].marks = questions[k].marks ]_vars

\* a Section B question with the 3 marks of an annotation met on a later line
\* than the one following the header
C13_Witness ==
    /\ pc = "done"
    /\ Len(lines) >= 3 /\ lines[1] = HdrB /\ lines[2].nq < 0 /\ lines[3] = Spec5x3
    /\ \E k \in DOMAIN result : result[k].section = "B" /\ result[k].marks = 3

\* Line t is a question start right after an OR line that flushed an
\* alternative of another source number, in a section with internal choice.
DifferentStartAfterOr(t) ==
    /\ t >= 3 /\ t <= Len(lines)
    /\ lines[t].kind = "q"
    /\ lines[t - 1].kind = "or"
    /\ LET s2 == After(lines, t - 2)
           s1 == After(lines, t - 1)
       IN  /\ s1.section_cfg # NoCfg
           /\ s1.section_cfg.internal_choice
           /\ s1.after_or
           /\ Len(s1.questions) = Len(s2.questions) + 1
           /\ s1.or_prev_q_num # lines[t].num

\* C16 (as claimed): the alternative flushed at the OR line is a question of
\* the result without internal choice, and the new line opens the question
\* that is emitted next, with the next sequential number.
C16_DifferentNumberStartsNext ==
    pc = "done" =>
      \A t \in 1..Len(lines) :
        DifferentStartAfterOr(t) =>
          LET n == Len(After(lines, t - 1).questions)
          IN  /\ Len(result) >= n
              /\ ~result[n].has_or_option
              /\ After(lines, t).cur_lines = <<lines[t].text>>
              /\ Len(result) >= n + 1
              /\ result[n + 1].question_number = n + 1

\* C16 (amended): the line leaves the emitted list alone, the flushed
\* alternative being its last element without internal choice, and ends the
\* OR state; when the section has a free slot it opens an ordinary question
\* whose number will be the next sequential one, and that question is emitted
\* as soon as it has a text; when the section is full the line is skipped.
C16_DifferentNumberAfterOr ==
    pc = "done" =>
      \A t \in 1..Len(lines) :
        DifferentStartAfterOr(t) =>
          LET s0 == After(lines, t - 1)
              s1 == After(lines, t)
              n == Len(s0.questions)
              free == s0.section_cfg.num_questions - s0.section_q_count > 0
          IN  /\ s1.questions = s0.questions
              /\ ~s1.questions[n].has_or_option
              /\ ~s1.after_or
              /\ s1.global_q_num = n + 1
              /\ free => /\ s1.cur_lines = <<lines[t].text>>
                         /\ s1.or_prev_q_num = lines[t].num
                         /\ lines[t].text # "" =>
                               /\ Len(result) >= n + 1
                               /\ result[n + 1].question_number = n + 1
                               /\ result[n + 1].question_text[1] = lines[t].text
                               /\ result[n + 1].marks = s0.section_cfg.marks_per_question
              /\ ~free => s1.cur_lines = <<>>

\* "Q17. a", OR, "18. c" in a section with free slots: two questions
C16_Witness ==
    /\ pc = "done"
    /\ \E t \in 1..Len(lines) :
          /\ DifferentStartAfterOr(t)
          /\ remaining_slots(After(lines, t - 1)) > 0
          /\ lines[t].text # ""
    /\ Len(result) >= 2

\* a question was opened in the section that line t belongs to
OpenedBefore(t) ==
    \E u \in 1..(t - 1) :
        /\ Branch(After(lines, u - 1), lines[u]) = "qstart"
        /\ After(lines, u).cur_lines # <<>>
        /\ \A v \in (u + 1)..(t - 1) : lines[v].kind # "section"

\* C17 (as claimed): a text line (no header, annotation, OR, question start
\* or option) met after a question was opened in the current section is in
\* the text of an emitted question.
C17_TextLineNeverDropped ==
    pc = "done" =>
      \A t \in 1..Len(lines) :
        (lines[t].kind = "text" /\ lines[t].nq < 0 /\ OpenedBefore(t)) =>
            \E k \in DOMAIN result :
                \E j \in DOMAIN result[k].question_text :
                    result[k].question_text[j] = PreserveMathPiece(lines[t].raw)

OrSeparators(text) == { j \in DOMAIN text : text[j] = "\nOR\n" }

\* C18 (as claimed): a question of the section scan flagged with internal
\* choice holds exactly one "\nOR\n" separator, between two non-empty bodies.
C18_AtMostOneAlternative ==
    \A k \in DOMAIN questions :
        questions[k].has_or_option =>
            LET text == questions[k].question_text
            IN  /\ Cardinality(OrSeparators(text)) = 1
                /\ text[1] # "\nOR\n"
                /\ text[Len(text)] # "\nOR\n"

\* 16 questions minus 4 assertion-reason questions in the static table
LeadingMultipleChoiceCount ==
    CBSE_PHYSICS_SECTION_CONFIG("A").num_questions
        - CBSE_PHYSICS_SECTION_CONFIG("A").ar_questions

\* this step emits a new question of Section A; section_q_count is the
\* number of questions emitted before it since the header
EmitsInSectionA ==
    /\ Len(questions') = Len(questions) + 1
    /\ Last(questions').section = "A"

EmitsOutsideSectionA ==
    /\ Len(questions') = Len(questions) + 1
    /\ Last(questions').section \in {"B", "C", "D", "E"}

HasAssertionLabel(text) == \E j \in DOMAIN text : text[j] = "Assertion (A): p"

HasReasonLabel(text) == \E j \in DOMAIN text : text[j] = "Reason (R): r"

HasInlineOptionLabel(text) == \E j \in DOMAIN text : text[j] = "pick (A) u (B) w"

\* C20 (as claimed): outside Section A a question is mcq when options were
\* parsed for it, assertion_reason when its body holds an Assertion (A) /
\* Reason (R) pair, and of its section's default type otherwise.
C20_TypeFromOptionsOrPair ==
    [][ EmitsOutsideSectionA =>
          Last(questions').question_type =
              IF cur_options # EmptyDict THEN "mcq"
              ELSE IF /\ HasAssertionLabel(Last(questions').question_text)
                      /\ HasReasonLabel(Last(questions').question_text)
                   THEN "assertion_reason"
              ELSE section_cfg.primary_type ]_vars

\* C20 (amended): outside Section A a question is typed when it is emitted:
\* mcq when at least two options were parsed for it or its text holds an
\* inline option label, else assertion_reason when its text holds an
\* Assertion (A) label, else its section's default type; a later merge of an
\* OR alternative leaves the type alone.
C20_TypeWhenEmitted ==
    [][ /\ EmitsOutsideSectionA =>
              Last(questions').question_type =
                  IF \/ Cardinality(DOMAIN cur_options) >= 2
                     \/ HasInlineOptionLabel(Last(questions').question_text)
                  THEN "mcq"
                  ELSE IF HasAssertionLabel(Last(questions').question_text)
                       THEN "assertion_reason"
                  ELSE section_cfg.primary_type
        /\ \A k \in DOMAIN questions \cap DOMAIN questions' :
              questions'[k].question_type = questions[k].question_type ]_vars

\* a Section B question typed mcq by its two parsed options, and one left
\* short with a single parsed option
C20_Witness ==
    /\ pc = "done"
    /\ \E k \in DOMAIN result :
          /\ result[k].section = "B"
          /\ result[k].question_text = <<"a">>
          /\ DOMAIN result[k].options = {"A", "B"}
          /\ result[k].question_type = "mcq"

\* the last line among the first t that opened a question (0 if none did)
OpenedAt(t) ==
    LET starts == { j \in 1..t : Branch(After(lines, j - 1), lines[j]) = "qstart" }
    IN  IF starts = {} THEN 0 ELSE CHOOSE j \in starts : \A j2 \in starts : j2 <= j

\* letters marked correct on the option lines of the question open after t lines
MarkedLetters(t) ==
    { lines[j].correct : j \in { j2 \in (OpenedAt(t) + 1)..t :
          /\ OpenedAt(t) > 0
          /\ Branch(After(lines, j2 - 1), lines[j2]) = "option"
          /\ lines[j2].correct # "" } }

\* C21: an emitted question whose option lines carry a correctness marker has
\* that option's letter as correct_answer, and a question without a marker on
\* its option lines has none.
C21_CorrectLetterFromMarker ==
    [][ (pc = "section" /\ Len(questions') = Len(questions) + 1) =>
          IF MarkedLetters(i) = {}
          THEN Last(questions').correct_answer = "None"
          ELSE Last(questions').correct_answer \in MarkedLetters(i) ]_vars

\* the scan is about to read a section header line
AtSectionHeader ==
    /\ pc = "section"
    /\ i < Len(lines)
    /\ lines[i + 1].kind = "section"
    /\ i' = i + 1

EmittedSinceHeader ==
    Len(questions) - Len(After(lines, HeaderBefore(lines, i + 1)).questions)

\* C24: between a section header and the next, no more questions are emitted
\* than the section rule's num_questions.
C24_SectionNeverOverfull ==
    (pc \in {"section", "plain", "done"} /\ section_cfg # NoCfg) =>
        EmittedSinceHeader <= section_cfg.num_questions

\* line j is an OR line that flushed the open question and set after_or
EffectiveOr(j) ==
    /\ lines[j].kind = "or"
    /\ LET s == After(lines, j - 1)
       IN  /\ Branch(s, lines[j]) = "or"
           /\ s.section_cfg # NoCfg
           /\ s.section_cfg.internal_choice
           /\ Len(s.cur_lines) > 0

\* the last such line among the first t (0 if there is none)
LastEffectiveOr(t) ==
    LET ors == { j \in 1..t : EffectiveOr(j) }
    IN  IF ors = {} THEN 0 ELSE CHOOSE j \in ors : \A j2 \in ors : j2 <= j

\* this step merges an OR alternative into the last emitted question
MergesAlternative ==
    /\ pc = "section"
    /\ Len(questions') = Len(questions)
    /\ questions' # questions

\* C25: an OR alternative is merged only into the question that the flush at
\* the preceding OR line emitted.
C25_MergedIntoOwnFirstAlternative ==
    [][ MergesAlternative =>
          LET o == LastEffectiveOr(i)
          IN  /\ o > 0
              /\ Len(After(lines, o).questions) = Len(After(lines, o - 1).questions) + 1
              /\ Len(questions) = Len(After(lines, o).questions) ]_vars

\* the scan is about to read an OR line in a section without internal
\* choice, outside any section, or with no question open
AtIdleOr ==
    /\ pc = "section"
    /\ i < Len(lines)
    /\ lines[i + 1].kind = "or"
    /\ i' = i + 1
    /\ \/ section_cfg = NoCfg
       \/ ~section_cfg.internal_choice
       \/ cur_lines = <<>>

\* such a line leaves the emitted questions, the accumulator, the counters
\* and the OR state as they are
IdleOrChangesNothing ==
    AtIdleOr => UNCHANGED <<questions, cur_lines, cur_options, in_ar, global_q_num,
                            section_q_count, after_or, or_prev_q_num, current_section,
                            section_cfg, temp_correct>>

\* the scan is about to read a question-start line that follows such an OR line
AtStartAfterIdleOr ==
    /\ pc = "section"
    /\ 1 <= i /\ i < Len(lines)
    /\ lines[i].kind = "or"
    /\ ~EffectiveOr(i)
    /\ lines[i + 1].kind = "q"
    /\ i' = i + 1

\* the line is not taken as an OR alternative: nothing is merged, no
\* alternative is pending afterwards, and it opens a question if the section
\* has a free slot
HandledAsOrdinaryStart ==
    /\ ~after_or'
    /\ Len(questions') >= Len(questions)
    /\ SubSeq(questions', 1, Len(questions)) = questions
    /\ (section_cfg # NoCfg /\ section_cfg.num_questions - section_q_count > 0) =>
           cur_lines' = <<lines[i + 1].text>>

----------------------------------------------------------------------------
(***************************************************************************)
(* Properties of the smart answer mapping                                  *)
(***************************************************************************)
\* the draft answers whose number is no question number of the paper, in
\* draft order
OutsideAnswers ==
    LET idx == SelectSeq([k \in DOMAIN parsed_answers |-> k],
                         LAMBDA k : \A j \in DOMAIN paper_questions :
                             paper_questions[j].question_number # parsed_answers[k].q)
    IN  [k \in DOMAIN idx |-> parsed_answers[idx[k]].a]

\* positions of the questions that no draft answer names
UnmatchedQuestions ==
    { k \in DOMAIN paper_questions :
        \A j \in DOMAIN parsed_answers :
            parsed_answers[j].q # paper_questions[k].question_number }

\* exactly one answer outside the paper and exactly one question without answer
SinglePair == Len(OutsideAnswers) = 1 /\ Cardinality(UnmatchedQuestions) = 1

\* position in the pool of the earliest question of maximal overlap
EarliestBest(pool, ans) ==
    CHOOSE k \in DOMAIN pool :
        /\ \A j \in DOMAIN pool :
               Overlap(ans, pool[j].question_text) <= Overlap(ans, pool[k].question_text)
        /\ \A j \in 1..(k - 1) :
               Overlap(ans, pool[j].question_text) < Overlap(ans, pool[k].question_text)

\* the next answer in draft order goes to the best question of the pool,
\* which leaves the pool
GreedyStep ==
    (rpc = "loop" /\ ans_idx < Len(OutsideAnswers) /\ unmapped_questions # <<>>
       /\ ~SinglePair) =>
        LET ans == OutsideAnswers[ans_idx + 1]
            best == EarliestBest(unmapped_questions, ans)
        IN  /\ mapped_answers' =
                   Put(mapped_answers, unmapped_questions[best].question_number, ans)
            /\ unmapped_questions' = RemoveAt(unmapped_questions, best)
            /\ ans_idx' = ans_idx + 1

\* the pool holds questions that have no answer yet
PoolUnassigned ==
    rpc = "loop" =>
        \A k \in DOMAIN unmapped_questions :
            ~HasKey(mapped_answers, unmapped_questions[k].question_number)

IsFiveExample ==
    /\ Len(paper_questions) = 5
    /\ \A k \in 1..5 : paper_questions[k].question_number = k
    /\ [k \in DOMAIN parsed_answers |-> parsed_answers[k].q] = <<1, 2, 4, 7>>

\* questions 1..5, answers 1, 2, 4, 7: answer 7 ends on the question of 3 and
\* 5 with the higher overlap (3 on a tie), the other one has no answer
FiveExampleOutcome ==
    (rpc' = "done" /\ IsFiveExample) =>
        LET a7 == parsed_answers[4].a
            o3 == Overlap(a7, paper_questions[3].question_text)
            o5 == Overlap(a7, paper_questions[5].question_text)
            to == IF o5 > o3 THEN 5 ELSE 3
            other == IF o5 > o3 THEN 3 ELSE 5
        IN  /\ HasKey(mapped_answers', to)
            /\ Get(mapped_answers', to) = a7
            /\ ~HasKey(mapped_answers', other)

\* C4: outside the single-pair case the unmapped answers are taken in draft
\* order; each goes to the still unassigned question whose lower-cased word
\* set shares most words with the answer, the earliest one on a tie, and that
\* question leaves the pool before the next answer; with questions 1..5 and
\* answers 1, 2, 4, 7 answer 7 goes to the better of questions 3 and 5.
C4_GreedyByOverlap == [][GreedyStep /\ PoolUnassigned /\ FiveExampleOutcome]_vars

\* the five-question example ended with answer 7 on question 5
C4_Witness ==
    /\ rpc = "done"
    /\ IsFiveExample
    /\ Overlap(parsed_answers[4].a, paper_questions[5].question_text) >
           Overlap(parsed_answers[4].a, paper_questions[3].question_text)
    /\ HasKey(mapped_answers, 5)
    /\ Get(mapped_answers, 5) = parsed_answers[4].a
    /\ ~HasKey(mapped_answers, 3)

\* C5: one answer outside the paper and one question without answer are
\* paired whatever their word overlap is.
C5_SinglePairAssigned ==
    (rpc = "done" /\ SinglePair) =>
        LET n == paper_questions[CHOOSE k \in UnmatchedQuestions : TRUE].question_number
        IN  /\ HasKey(mapped_answers, n)
            /\ Get(mapped_answers, n) = OutsideAnswers[1]

\* a single pair without any common word was paired
C5_Witness ==
    /\ rpc = "done"
    /\ SinglePair
    /\ LET k == CHOOSE k \in UnmatchedQuestions : TRUE
       IN  /\ Overlap(OutsideAnswers[1], paper_questions[k].question_text) = 0
           /\ HasKey(mapped_answers, paper_questions[k].question_number)
           /\ Get(mapped_answers, paper_questions[k].question_number) = OutsideAnswers[1]
    /\ Len(parsed_answers) = 2

\* answers outside the paper that ended on no question
Discarded ==
    Len(OutsideAnswers) - (Cardinality(UnmatchedQuestions) - Len(unmapped_questions))

\* C6 (as claimed): an answer is discarded only on an empty pool, and the
\* number of discarded answers is reported next to the repaired map.
C6_DiscardedAreCounted ==
    rpc = "done" =>
        /\ Discarded > 0 => unmapped_questions = <<>>
        /\ "unattributable" \in DOMAIN Reported
        /\ Reported["unattributable"] = Discarded

----------------------------------------------------------------------------
(***************************************************************************)
(* Properties of the answer parser                                         *)
(***************************************************************************)
\* C7 (as claimed): "Q1. First (1) alpha (2) beta Q2. Second" gives
\* {1: "First (1) alpha (2) beta", 2: "Second"}.
C7_NestedNumbersStayInBody ==
    (apc = "done" /\ sheet_text = NestedNumbersText) =>
        parse_result =
            << [q |-> 1, a |-> <<"First", " ", "(", "1", ")", " ", "alpha", " ",
                                 "(", "2", ")", " ", "beta">>],
               [q |-> 2, a |-> <<"Second">>] >>

\* per non-empty line of t its option letter, "" when the line is none
LineLetters(t) ==
    LET ls == NonEmptyLines(t)
    IN  [k \in DOMAIN ls |-> McqLetter(ls[k])]

\* C8 (as claimed): when at least 70% of the non-empty lines of the text are
\* one option letter, the letter on the i-th non-empty line is the answer to
\* question i and nothing else is returned.
C8_SeventyPercentPositional ==
    (apc = "done" /\ Len(NonEmptyLines(sheet_text)) > 0
       /\ 10 * Len(McqLines(sheet_text)) >= 7 * Len(NonEmptyLines(sheet_text))) =>
        /\ Keys(parse_result) =
               { k \in DOMAIN LineLetters(sheet_text) : LineLetters(sheet_text)[k] # "" }
        /\ \A k \in Keys(parse_result) :
               Get(parse_result, k) = <<Upper(LineLetters(sheet_text)[k])>>

\* C8 (amended): when the text, after the line breaks inserted before "n." and
\* "n)" markers, has at least three option-letter lines and these are at
\* least 70% of its non-empty lines, the result is the map from i to the
\* upper-cased letter of the i-th option-letter line.
C8_PureMcqPositional ==
    LET letters == McqLines(InsertBreaks(sheet_text))
    IN  (apc = "done" /\ Len(letters) >= 3
           /\ 10 * Len(letters) >= 7 * Len(NonEmptyLines(InsertBreaks(sheet_text)))) =>
            parse_result = [k \in DOMAIN letters |-> [q |-> k, a |-> <<Upper(letters[k])>>]]

\* a sheet whose first non-empty line is no option letter, followed by three
\* letters, one of them lower-case
C8_Witness ==
    /\ apc = "done"
    /\ Len(NonEmptyLines(sheet_text)) = 4
    /\ LineLetters(sheet_text)[1] = ""
    /\ Len(McqLines(sheet_text)) = 3
    /\ \E k \in 2..4 : LineLetters(sheet_text)[k] = "b"
    /\ Len(parse_result) = 3

\* empty, or white space only
IsBlankText(t) == \A k \in DOMAIN t : t[k] \in {" ", "\n"}

\* a 1-2 digit number followed by "." or ")" and white space, not glued to a
\* preceding digit
HasMarker(t) == \E w \in DOMAIN t : NumberAt(t, w) > 0 /\ (w = 1 \/ ~IsDigit(t[w - 1]))

IsPureMcqSheet(t) ==
    Len(McqLines(t)) >= 3 /\ 10 * Len(McqLines(t)) >= 7 * Len(NonEmptyLines(t))

\* nothing for the per-answer cleanup to rewrite: no leading answer prefix,
\* more than a lone symbol, no run of three line breaks
CleanupNeutral(t) ==
    /\ Len(Strip(t)) > 1
    /\ ~IsAnswerPrefixWord(Strip(t)[1])
    /\ \A k \in 1..(Len(t) - 2) : ~(t[k] = "\n" /\ t[k + 1] = "\n" /\ t[k + 2] = "\n")

\* C9: a non-empty text without any marker that is no pure-MCQ sheet gives
\* exactly one entry, keyed 1, holding the cleaned whole text; where the
\* cleanup has nothing to rewrite this is the stripped text itself.
C9_NoMarkerWholeTextAsOne ==
    (apc = "done" /\ ~IsBlankText(sheet_text) /\ ~HasMarker(sheet_text)
       /\ ~IsPureMcqSheet(sheet_text)) =>
        /\ Len(parse_result) = 1
        /\ parse_result[1].q = 1
        /\ parse_result[1].a = _clean_answer(sheet_text)
        /\ CleanupNeutral(sheet_text) => parse_result[1].a = Strip(sheet_text)

\* a marker-free text of several lines went to question 1 unchanged
C9_Witness ==
    /\ apc = "done"
    /\ ~HasMarker(sheet_text)
    /\ ~IsPureMcqSheet(sheet_text)
    /\ CleanupNeutral(sheet_text)
    /\ \E k \in DOMAIN Strip(sheet_text) : Strip(sheet_text)[k] = "\n"
    /\ parse_result = <<[q |-> 1, a |-> Strip(sheet_text)]>>

\* C10: on an empty or white-space-only text _parse_questions returns the
\* empty list and parse_answers returns the empty map.
C10_BlankInputGivesEmpty ==
    /\ (pc = "done" /\ IsBlankPaper(lines)) => result = <<>>
    /\ (apc = "done" /\ IsBlankText(sheet_text)) => parse_result = <<>>

\* both parsers have returned on a white-space-only text of several lines
C10_Witness ==
    /\ pc = "done"
    /\ apc = "done"
    /\ Len(lines) > 1
    /\ IsBlankPaper(lines)
    /\ Len(sheet_text) > 1
    /\ IsBlankText(sheet_text)
    /\ result = <<>>
    /\ parse_result = <<>>

\* the marker the loop is about to handle: prefix, number, suffix and text
MarkerPrefix == parts[4 * marker_idx + 2]

MarkerNumber == IntOf(parts[4 * marker_idx + 3])

MarkerWhole ==
    parts[4 * marker_idx + 2] \o parts[4 * marker_idx + 3] \o parts[4 * marker_idx + 4]
        \o parts[4 * marker_idx + 5]

\* the prefix holds Q, Ques, Question, Ans, Answer, Sol or Solution
HasExplicitPrefix == \E k \in DOMAIN MarkerPrefix : IsMarkerKeyword(MarkerPrefix[k])

\* no explicit prefix, a question is active, and the number was seen before
\* or lies more than 3 below the active number
NestedBulletCase ==
    /\ ~HasExplicitPrefix
    /\ current_q # -1
    /\ \/ MarkerNumber \in seen_qs
       \/ current_q - MarkerNumber > 3

EndsWith(t, suffix) ==
    Len(t) >= Len(suffix) /\ SubSeq(t, Len(t) - Len(suffix) + 1, Len(t)) = suffix

\* C15: in the marker loop a marker is merged as a nested bullet (marker and
\* text appended to the active answer, active question and seen numbers
\* unchanged) exactly when it has no explicit prefix, a question is active and
\* its number was seen before or is more than 3 below the active number;
\* every other marker becomes the active question and its text goes to the
\* answer of its own number.
C15_NestedBulletRule ==
    [][ marker_idx' = marker_idx + 1 =>
          IF NestedBulletCase
          THEN /\ current_q' = current_q
               /\ seen_qs' = seen_qs
               /\ Keys(answers') = Keys(answers)
               /\ Get(answers', current_q) = Get(answers, current_q) \o MarkerWhole
               /\ \A q \in Keys(answers) \ {current_q} : Get(answers', q) = Get(answers, q)
          ELSE /\ current_q' = MarkerNumber
               /\ seen_qs' = seen_qs \cup {MarkerNumber}
               /\ Keys(answers') = Keys(answers) \cup {MarkerNumber}
               /\ EndsWith(Get(answers', MarkerNumber), parts[4 * marker_idx + 5])
               /\ \A q \in Keys(answers) \ {MarkerNumber} : Get(answers', q) = Get(answers, q)
      ]_vars

\* "7. " then "2. ": the second marker was merged into answer 7 by the
\* distance rule, 2 never having been a question
C15_Witness ==
    /\ apc = "loop"
    /\ marker_idx = 2
    /\ IntOf(parts[3]) = 7 /\ IntOf(parts[7]) = 2
    /\ current_q = 7
    /\ Keys(answers) = {7}

\* draft entries whose number is a question number of the paper
DirectMatches ==
    { k \in DOMAIN parsed_answers : InPaper(paper_questions, parsed_answers[k].q) }

\* C23: once the draft is partitioned, every directly matched draft entry
\* stands in the map under its own number with its own text, up to the end of
\* the reconciliation, and no question with a direct match is in the pool of
\* candidates for the unmapped answers.
C23_DirectMatchesKept ==
    rpc \in {"loop", "done"} =>
        /\ \A k \in DirectMatches :
              /\ HasKey(mapped_answers, parsed_answers[k].q)
              /\ Get(mapped_answers, parsed_answers[k].q) = parsed_answers[k].a
              /\ Cardinality({ j \in DOMAIN mapped_answers :
                                 mapped_answers[j].q = parsed_answers[k].q }) = 1
        /\ \A j \in DOMAIN unmapped_questions :
              \A k \in DOMAIN parsed_answers :
                  parsed_answers[k].q # unmapped_questions[j].question_number

\* a reconciliation with a direct match that also placed an unmapped answer
C23_Witness ==
    /\ rpc = "done"
    /\ DirectMatches # {}
    /\ Len(mapped_answers) > Cardinality(DirectMatches)

\* C26: at every step of the reconciliation the keys of the map are distinct
\* question numbers of the paper, and the map changes only by gaining one
\* entry, under a number that had none, holding the draft answer the loop is
\* at, which the loop then leaves behind.
C26_MapIsInjective ==
    [][ /\ rpc' \in {"loop", "done"} =>
              /\ \A j \in DOMAIN mapped_answers' :
                    InPaper(paper_questions, mapped_answers'[j].q)
              /\ \A j, k \in DOMAIN mapped_answers' :
                    j # k => mapped_answers'[j].q # mapped_answers'[k].q
              /\ Len(mapped_answers') <= Len(parsed_answers)
        /\ (rpc = "loop" /\ mapped_answers' # mapped_answers) =>
              /\ \E e \in [q : Keys(mapped_answers'), a : {unmapped_answers[ans_idx + 1]}] :
                    /\ mapped_answers' = Append(mapped_answers, e)
                    /\ ~HasKey(mapped_answers, e.q)
              /\ ans_idx' = ans_idx + 1 \/ rpc' = "done" ]_vars

\* two answers with numbers outside the paper were placed on two questions
C26_Witness ==
    /\ rpc = "done"
    /\ ans_idx = 2
    /\ Len(mapped_answers) = 2
    /\ \A k \in DOMAIN parsed_answers : ~InPaper(paper_questions, parsed_answers[k].q)

\* what the marker the loop is at adds to an answer: the whole marker for a
\* nested bullet, else the pending preamble and the text after the marker
PlacedSegment ==
    IF NestedBulletCase THEN MarkerWhole
    ELSE (IF Len(preamble) > 0 THEN preamble \o <<"\n">> ELSE <<>>)
             \o parts[4 * marker_idx + 5]

\* the answer that receives it
PlacedUnder == IF NestedBulletCase THEN current_q ELSE MarkerNumber

\* C27: every iteration of the marker loop appends the marker's segment to
\* exactly one answer, after whatever that answer held, and leaves all other
\* answers alone; the keys are the numbers of the non-bullet markers so far,
\* and they are the keys of the returned map.
C27_SegmentsPlacedOnce ==
    [][ /\ marker_idx' = marker_idx + 1 =>
              /\ Get(answers', PlacedUnder) =
                    (IF HasKey(answers, PlacedUnder) THEN Get(answers, PlacedUnder) ELSE <<>>)
                        \o PlacedSegment
              /\ Keys(answers') = Keys(answers) \cup {PlacedUnder}
              /\ \A q \in Keys(answers) \ {PlacedUnder} : Get(answers', q) = Get(answers, q)
              /\ Len(answers') = Cardinality(Keys(answers'))
              /\ Keys(answers') = seen_qs'
              /\ seen_qs' = IF NestedBulletCase THEN seen_qs ELSE seen_qs \cup {MarkerNumber}
        /\ (apc = "loop" /\ apc' = "done") =>
              /\ Keys(parse_result') = seen_qs
              /\ Len(parse_result') = Cardinality(seen_qs) ]_vars

\* "Q<n>" met twice with text after each: the second text stands after the
\* first in the answer of n
C27_Witness ==
    /\ apc = "loop"
    /\ marker_idx = 2
    /\ IntOf(parts[3]) = IntOf(parts[7])
    /\ \E k \in DOMAIN parts[6] : IsMarkerKeyword(parts[6][k])
    /\ Len(parts[5]) > 0
    /\ Len(parts[9]) > 0
    /\ Len(answers) = 1
    /\ answers[1].a = parts[5] \o parts[9]

----------------------------------------------------------------------------
(***************************************************************************)
(* Properties of the evaluation loop                                       *)
(***************************************************************************)
RowsOf(q_num) == { k \in DOMAIN evaluations : evaluations[k].question_number = q_num }

\* C14 (as claimed): when a pipeline has ended, every question of the paper
\* has exactly one evaluation row, and the row of a question whose answer in
\* the final map is missing or empty after strip() holds 0 marks.
C14_OneRowEachZeroWhenUnanswered ==
    epc = "done" =>
        \A k \in DOMAIN eval_questions :
            LET question == eval_questions[k]
                rows == RowsOf(question.question_number)
            IN  /\ Cardinality(rows) = 1
                /\ IsBlankText(IF HasKey(eval_answers, question.question_number)
                               THEN Get(eval_answers, question.question_number)
                               ELSE <<>>)
                      => \A r \in rows : evaluations[r].marks_obtained = 0


StatusMoves ==
    { <<"pending", "evaluating">>, <<"evaluating", "evaluated">>,
      <<"evaluating", "failed">> }

----------------------------------------------------------------------------
(***************************************************************************)
(* Properties of concurrent PDF extraction                                 *)
(***************************************************************************)
\* C30: two extractions running at once on PDFs of the same directory do not
\* interfere: each parses only page images rendered from its own PDF, and the
\* page image an invocation is about to read is still the one it wrote.
C30_ExtractionsDoNotInterfere ==
    \A p \in Invocations :
        /\ \A k \in DOMAIN parsed_pages[p] : parsed_pages[p][k] = p
        /\ xpc[p] = "parse" => page_files[page_idx[p]] = p
=============================================================================
